---- MODULE Spec2Model ----
(***************************************************************************)
(* Model of the ingestion pipeline of mcq-backend/app/vectordb_pinecone.py *)
(* and app/services/book_service.py: chunking, content-hash dedup, batch   *)
(* embedding with response-shape normalisation and retries, vector upsert, *)
(* the chunk ledger and the book (document) row.                           *)
(*                                                                         *)
(* Text is a sequence of characters; the character 0 is whitespace and     *)
(* every positive number is a non-whitespace character.                    *)
(***************************************************************************)
EXTENDS Integers, Sequences, FiniteSets, TLC

(* ------------------------------ bounds -------------------------------- *)

\* Number of ingest requests a behaviour may start (they may overlap).
MaxRequests == 2

\* The largest value a request to update_book gives to inserted_chunks.
MaxGauge == 7

\* Longest input list handed to the embedding client in SpecEmbed.
MaxTexts == 9

\* The longest record list given to a stepped run of _upsert_vectors_sync:
\* two full batches and the start of a third.
MaxRecords == 258

\* The length of the one long token of SpecPreview: longer than the text preview
\* kept in the index metadata.
WideToken == 801

\* Stepped runs of chunk_text: texts of up to MaxTokens tokens, chunk sizes
\* 1..MaxChunkSize, overlaps 0..MaxChunkSize + 1, and at most MaxChunks
\* passes of the loop that are followed (a run that needs more is left there).
MaxTokens == 4
MaxChunkSize == 3
MaxChunks == 6

\* The values of top_k given to retrieve_relevant_chunks: 1..MaxTopK.
MaxTopK == 3

\* The values random.random() takes in SpecEmbed: up to MaxUlps steps of
\* 2^-53 above 0, and 1..MaxUlps steps of 2^-53 below 1.
MaxUlps == 1
MaxPageNo == 2
ScenarioTokens == 500
MaxChapters == 2

(* ------------------------- program constants -------------------------- *)

CHUNK_SIZE == 400
CHUNK_OVERLAP == 50
HF_BATCH_SIZE == 8
HF_MAX_RETRIES == 3
BATCH == 128

(* ------------------------------ text ---------------------------------- *)

Min(a, b) == IF a < b THEN a ELSE b

\* Python's s[i:j] for 0 <= i (0-based, j exclusive, clipped to the length).
Slice(s, i, j) == SubSeq(s, i + 1, Min(j, Len(s)))

RECURSIVE lstrip(_)
lstrip(s) == IF s # <<>> /\ Head(s) = 0 THEN lstrip(Tail(s)) ELSE s

RECURSIVE rstrip(_)
rstrip(s) ==
    IF s # <<>> /\ s[Len(s)] = 0 THEN rstrip(SubSeq(s, 1, Len(s) - 1)) ELSE s

\* str.strip(): leading and trailing whitespace removed.
strip(s) == rstrip(lstrip(s))

\* str.split(): the maximal runs of non-whitespace characters, in order.
\* The text is split in two halves; a run that crosses the middle is the
\* last token of the left half followed by the first of the right half.
RECURSIVE split(_)
split(s) ==
    IF Len(s) = 0 THEN <<>>
    ELSE IF Len(s) = 1 THEN (IF s[1] = 0 THEN <<>> ELSE <<s>>)
    ELSE LET m == Len(s) \div 2
             l == split(SubSeq(s, 1, m))
             r == split(SubSeq(s, m + 1, Len(s)))
         IN  IF s[m] # 0 /\ s[m + 1] # 0
             THEN SubSeq(l, 1, Len(l) - 1) \o <<l[Len(l)] \o r[1]>> \o Tail(r)
             ELSE l \o r

\* " ".join(tokens), by halves.
RECURSIVE join(_)
join(tokens) ==
    IF tokens = <<>> THEN <<>>
    ELSE IF Len(tokens) = 1 THEN tokens[1]
    ELSE LET m == Len(tokens) \div 2
         IN  join(SubSeq(tokens, 1, m)) \o <<0>>
                 \o join(SubSeq(tokens, m + 1, Len(tokens)))

\* sha256(...).hexdigest() of the stripped text: the digest is modelled as an
\* injective tag of the bytes that are hashed.
compute_hash(text) == <<"sha256", strip(text)>>

\* Variant: the start advances by chunk_size, the windows do not overlap.
RECURSIVE chunk_loop_no_overlap(_, _, _, _, _)
chunk_loop_no_overlap(tokens, i, chunk_size, overlap, chunks) ==
    IF i < Len(tokens)
    THEN chunk_loop_no_overlap(tokens, i + chunk_size, chunk_size, overlap,
                    Append(chunks, join(Slice(tokens, i, i + chunk_size))))
    ELSE chunks

\* The while loop of chunk_text: windows of chunk_size tokens, the start
\* advancing by chunk_size - overlap.
RECURSIVE chunk_loop(_, _, _, _, _)
chunk_loop(tokens, i, chunk_size, overlap, chunks) ==
    IF i < Len(tokens)
    THEN chunk_loop(tokens, i + chunk_size - overlap, chunk_size, overlap,
                    Append(chunks, join(Slice(tokens, i, i + chunk_size))))
    ELSE chunks

chunk_text(text, chunk_size, overlap) ==
    LET tokens == split(text)
    IN  IF tokens = <<>> THEN <<>> ELSE chunk_loop(tokens, 0, chunk_size, overlap, <<>>)

\* Variant: the last span in list order that contains the page wins.
RECURSIVE chapter_for_last(_, _)
chapter_for_last(chapters, page_no) ==
    IF chapters = <<>> THEN "full"
    ELSE LET ch == chapters[Len(chapters)]
         IN  IF ch.start_page <= page_no /\ page_no <= ch.end_page
             THEN ch.name
             ELSE chapter_for_last(SubSeq(chapters, 1, Len(chapters) - 1), page_no)

\* The chapter scan of prepare_chunks_from_pdf_sync: first span in list order
\* that contains the page, else "full".
RECURSIVE chapter_for(_, _)
chapter_for(chapters, page_no) ==
    IF chapters = <<>> THEN "full"
    ELSE IF Head(chapters).start_page <= page_no /\ page_no <= Head(chapters).end_page
         THEN Head(chapters).name
         ELSE chapter_for(Tail(chapters), page_no)

\* The chunk records of one page; uuid4() is modelled as the fresh id
\* <<request, position in the prepared list>>.
page_records(req, book_id, chapters, page_no, text, base) ==
    LET page_chunks == chunk_text(text, CHUNK_SIZE, CHUNK_OVERLAP)
    IN  [idx \in 1..Len(page_chunks) |->
            [chunk_id     |-> <<req, base + idx>>,
             book_id      |-> book_id,
             chapter_name |-> chapter_for(chapters, page_no),
             page         |-> page_no,
             chunk_index  |-> idx - 1,
             text         |-> page_chunks[idx],
             chunk_hash   |-> compute_hash(page_chunks[idx])]]

RECURSIVE prepare_from(_, _, _, _, _, _)
prepare_from(req, pages, page_no, book_id, chapters, prepared) ==
    IF page_no > Len(pages) THEN prepared
    ELSE IF strip(pages[page_no]) = <<>>
         THEN prepare_from(req, pages, page_no + 1, book_id, chapters, prepared)
         ELSE prepare_from(req, pages, page_no + 1, book_id, chapters,
                  prepared \o page_records(req, book_id, chapters, page_no,
                                           pages[page_no], Len(prepared)))

\* pdf_bytes is modelled by what extract_text_from_pdf_bytes_sync reads from
\* it: the sequence of page texts, page i being numbered i.
prepare_chunks_from_pdf_sync(req, pdf_bytes, book_id, chapters) ==
    prepare_from(req, pdf_bytes, 1, book_id, chapters, <<>>)

(* ---------------------- provider response values ---------------------- *)

\* Python values as tagged records: a number, a list, a numpy array (always
\* rectangular and numeric), a dict with one key, a string.  The pseudo-value
\* Raises stands for a provider call that raised (error or timeout).
Num(n) == [py |-> "num", v |-> n]
PyList(items) == [py |-> "list", items |-> items]
NdArray(items) == [py |-> "ndarray", items |-> items]
PyDict(k, val) == [py |-> "dict", key |-> k, val |-> val]
PyStr == [py |-> "str"]
Raises == [py |-> "raise"]

\* The shape np.array(x, dtype=float) would have; NoShape when it raises
\* (ragged nesting, or a string or dict inside).
NoShape == <<-1>>

RECURSIVE Shape(_)
Shape(x) ==
    IF x.py = "num" THEN <<>>
    ELSE IF x.py \in {"list", "ndarray"}
    THEN IF x.items = <<>> THEN <<0>>
         ELSE LET s1 == Shape(x.items[1])
              IN  IF s1 # NoShape /\ \A k \in 1..Len(x.items) : Shape(x.items[k]) = s1
                  THEN <<Len(x.items)>> \o s1
                  ELSE NoShape
    ELSE NoShape

\* arr.flatten().tolist() of a value that has a shape.
RECURSIVE Flatten(_)
RECURSIVE FlattenAll(_)
Flatten(x) == IF x.py = "num" THEN <<x.v>> ELSE FlattenAll(x.items)
FlattenAll(items) ==
    IF items = <<>> THEN <<>> ELSE Flatten(Head(items)) \o FlattenAll(Tail(items))

\* arr.reshape(n, dim) of a flat sequence of n * dim numbers: row k.
Row(flat, dim, k) == SubSeq(flat, (k - 1) * dim + 1, k * dim)

\* Whether float(x) succeeds: a number, or an array of exactly one element.
FloatOk(x) == x.py = "num" \/ (x.py = "ndarray" /\ Len(Flatten(x)) = 1)

\* _coerce_to_vector(item): [ok, vec]; ok = FALSE when it raises.
_coerce_to_vector(item) ==
    IF item.py = "dict" /\ item.key \in {"embedding", "embeddings"}
    THEN IF Shape(item.val) # NoShape
         THEN [ok |-> TRUE, vec |-> Flatten(item.val)]
         ELSE [ok |-> FALSE, vec |-> <<>>]
    ELSE IF Shape(item) # NoShape
         THEN [ok |-> TRUE, vec |-> Flatten(item)]
         ELSE IF item.py = "list" /\ \A k \in 1..Len(item.items) : FloatOk(item.items[k])
         THEN [ok |-> TRUE, vec |-> FlattenAll(item.items)]
         ELSE [ok |-> FALSE, vec |-> <<>>]

\* The items of a list coerced one after the other until one raises:
\* [ok, vecs], vecs being the vectors appended before the failure.
RECURSIVE coerce_each(_, _)
coerce_each(items, acc) ==
    IF items = <<>> THEN [ok |-> TRUE, vecs |-> acc]
    ELSE LET c == _coerce_to_vector(Head(items))
         IN  IF c.ok THEN coerce_each(Tail(items), Append(acc, c.vec))
             ELSE [ok |-> FALSE, vecs |-> acc]

\* CASE C's inner loop: the items that coerce, the others dropped.
RECURSIVE coerce_kept(_)
coerce_kept(items) ==
    IF items = <<>> THEN <<>>
    ELSE LET c == _coerce_to_vector(Head(items))
         IN  (IF c.ok THEN <<c.vec>> ELSE <<>>) \o coerce_kept(Tail(items))

Repeat(v, n) == [k \in 1..n |-> v]

Resolved(branch, vecs) == [ok |-> TRUE, branch |-> branch, appended |-> vecs]
Failed(branch, vecs) == [ok |-> FALSE, branch |-> branch, appended |-> vecs]

\* CASE D of one attempt: a dict with an "embeddings" or "embedding" field.
hf_case_d(resp, n) ==
    IF resp.py = "dict" /\ resp.key \in {"embeddings", "embedding"}
       /\ Shape(resp.val) # NoShape
    THEN LET sh == Shape(resp.val)
         IN  IF Len(sh) = 2 /\ sh[1] = n
             THEN Resolved("D-2d", [k \in 1..n |-> Flatten(resp.val.items[k])])
             ELSE IF Len(sh) = 1 /\ n = 1
             THEN Resolved("D-1d-single", <<Flatten(resp.val)>>)
             ELSE Failed("unrecognized", <<>>)
    ELSE Failed("unrecognized", <<>>)

\* CASE C of one attempt: a list whose length is not the sub-batch size.
hf_case_c(resp, n) ==
    IF resp.py = "list"
    THEN LET flattened == coerce_kept(resp.items)
         IN  IF Len(flattened) = n THEN Resolved("C-kept", flattened)
             ELSE IF Len(flattened) = 1 /\ n > 1
             THEN Resolved("C-broadcast", Repeat(flattened[1], n))
             ELSE hf_case_d(resp, n)
    ELSE hf_case_d(resp, n)

\* Variant: a 1D array for more than one text is always broadcast.
hf_case_b_broadcasts(resp, n) ==
    LET sh == Shape(resp)
        flat == Flatten(resp)
    IN  IF sh = NoShape THEN hf_case_c(resp, n)
        ELSE IF Len(sh) = 2 /\ sh[1] = n
        THEN Resolved("B-2d", [k \in 1..n |-> Flatten(resp.items[k])])
        ELSE IF Len(sh) = 1
        THEN IF n = 1 THEN Resolved("B-1d-single", <<flat>>)
             ELSE Resolved("B-1d-broadcast", Repeat(flat, n))
        ELSE hf_case_c(resp, n)

\* CASE B of one attempt: the response as a numeric array.
hf_case_b(resp, n) ==
    LET sh == Shape(resp)
        flat == Flatten(resp)
    IN  IF sh = NoShape THEN hf_case_c(resp, n)
        ELSE IF Len(sh) = 2 /\ sh[1] = n
        THEN Resolved("B-2d", [k \in 1..n |-> Flatten(resp.items[k])])
        ELSE IF Len(sh) = 1
        THEN IF n = 1 THEN Resolved("B-1d-single", <<flat>>)
             ELSE IF Len(flat) % n = 0
             THEN Resolved("B-1d-reshape",
                           [k \in 1..n |-> Row(flat, Len(flat) \div n, k)])
             ELSE Resolved("B-1d-broadcast", Repeat(flat, n))
        ELSE hf_case_c(resp, n)

\* One pass through the try block of _hf_request_embeddings_sync for a
\* sub-batch of n texts and the provider's response resp: whether the pass
\* ends in break (ok) or in an exception, and the vectors it appended to
\* all_embeddings on the way.
hf_attempt(resp, n) ==
    IF resp.py = "raise" THEN Failed("exception", <<>>)
    ELSE IF resp.py = "list" /\ Len(resp.items) = n
    THEN LET c == coerce_each(resp.items, <<>>)
         IN  IF c.ok THEN Resolved("A-per-item", c.vecs)
             ELSE Failed("A-coerce-error", c.vecs)
    ELSE hf_case_b(resp, n)

(* ------------------------- embedding provider ------------------------- *)

\* The vector the provider computes for one text (two numbers that tell the
\* texts of the model apart).
E(t) == <<Len(t), IF t = <<>> THEN 0 ELSE t[1]>>

Nums(v) == [k \in 1..Len(v) |-> Num(v[k])]

RECURSIVE ConcatE(_)
ConcatE(batch) == IF batch = <<>> THEN <<>> ELSE E(Head(batch)) \o ConcatE(Tail(batch))

\* Response shapes a provider may answer a sub-batch with.
RespArray2D(batch) == NdArray([k \in 1..Len(batch) |-> NdArray(Nums(E(batch[k])))])
RespPerItemList(batch) == PyList([k \in 1..Len(batch) |-> PyList(Nums(E(batch[k])))])
RespFlat1D(batch) == NdArray(Nums(ConcatE(batch)))
RespTokens(batch) ==
    PyList([k \in 1..Len(batch) |->
               PyList(<<PyList(Nums(E(batch[k]))), PyList(Nums(E(batch[k])))>>)])

\* The text that the provider behaviour "chokes" cannot embed.
ChokeText == <<HF_BATCH_SIZE + 1>>

\* What the embedding provider answers to call number attempt (0-based) for
\* a sub-batch, per provider behaviour.
ProviderResponse(prov, batch, attempt) ==
    CASE prov = "array2d" -> RespArray2D(batch)
      [] prov = "list"    -> RespPerItemList(batch)
      [] prov = "flaky"   -> IF attempt < HF_MAX_RETRIES - 1 THEN Raises
                             ELSE RespArray2D(batch)
      [] prov = "tokens"  -> RespTokens(batch)
      [] prov = "chokes"  -> IF \E k \in 1..Len(batch) : batch[k] = ChokeText
                             THEN Raises
                             ELSE RespArray2D(batch)
      [] OTHER            -> Raises

\* _hf_request_embeddings_sync from sub-batch start i on: [raised, value, at],
\* at being the start of the sub-batch whose retries were exhausted, else -1.
RECURSIVE hf_loop(_, _, _, _, _)
hf_loop(texts, i, attempt, all_embeddings, prov) ==
    IF i >= Len(texts)
    THEN IF Len(all_embeddings) # Len(texts)
         THEN [raised |-> TRUE, value |-> <<>>, at |-> -1]
         ELSE [raised |-> FALSE, value |-> all_embeddings, at |-> -1]
    ELSE LET batch == Slice(texts, i, i + HF_BATCH_SIZE)
             out == hf_attempt(ProviderResponse(prov, batch, attempt), Len(batch))
             acc == all_embeddings \o out.appended
         IN  IF out.ok THEN hf_loop(texts, i + HF_BATCH_SIZE, 0, acc, prov)
             ELSE IF attempt + 1 > HF_MAX_RETRIES
                  THEN [raised |-> TRUE, value |-> <<>>, at |-> i]
                  ELSE hf_loop(texts, i, attempt + 1, acc, prov)

_hf_request_embeddings_sync(texts, prov) ==
    IF texts = <<>> THEN [raised |-> FALSE, value |-> <<>>, at |-> -1]
    ELSE hf_loop(texts, 0, 0, <<>>, prov)

(* ------------------------------ inputs -------------------------------- *)

\* The ingest requests of a behaviour, started in the order of their numbers.
Reqs == 1..MaxRequests

BookIds == {"A", "B"}

\* PDFs, as page texts: "a" is the character 1, "b" is 2, 0 is a blank.
PdfA     == << <<1>> >>
PdfAB    == << <<1>>, <<0, 2, 0, 0, 1>> >>

NoChapters == <<>>
FirstPage == << [name |-> "ch1", start_page |-> 1, end_page |-> 1] >>

\* The uploads of the model: a PDF and the chapters given with it.
Uploads ==
    {[pdf |-> << <<0>> >>, chapters |-> NoChapters],
     [pdf |-> PdfA,     chapters |-> NoChapters],
     [pdf |-> PdfAB,    chapters |-> FirstPage],
     [pdf |-> << <<1>>, <<0, 1, 0>>, <<>> >>, chapters |-> NoChapters]}

\* Provider behaviours met by an ingest.
IngestProviders == {"array2d", "down"}

\* A PDF of HF_BATCH_SIZE + 1 pages, page k being the one-character text k:
\* its chunks fill one sub-batch of the embedder and start a second one.
PdfLong == [k \in 1..(HF_BATCH_SIZE + 1) |-> <<k>>]

\* The provider behaviours of SpecWide.
WideProviders == {"array2d", "tokens", "chokes", "down"}

(* ------------------------------- state -------------------------------- *)

VARIABLES
    reqs,      \* per request: its position and the locals of the two handlers
    ledger,    \* the rows of table chunks (models.Chunk)
    index,     \* the Pinecone index: whether it exists, and its dimension
    vectors,   \* the records held by the Pinecone index
    books,     \* the rows of table books (models.Book)
    hf,        \* one run of _hf_request_embeddings_sync, stepped (SpecEmbed)
    ups,       \* one run of _upsert_vectors_sync, stepped (SpecUpsert)
    del,       \* one request to the route delete_book (SpecDelete)
    rt,        \* one run of retrieve_relevant_chunks (SpecRetrieve)
    ck,        \* one run of chunk_text, stepped (SpecChunk)
    rq,        \* one request to the route ingest_book_endpoint (SpecRoute)
    book_seq,  \* the next AUTO_INCREMENT value of books.id
    ub         \* one request to the route update_book (SpecDelete)

\* The runs of the operations other than the ingest and the embedder.
ops == <<ups, del, rt, ck, rq, ub>>

vars == <<reqs, ledger, index, vectors, books, book_seq, hf, ops>>

NoRes == [returned |-> FALSE, inserted |-> 0, skipped |-> 0]
Result(inserted, skipped) ==
    [returned |-> TRUE, inserted |-> inserted, skipped |-> skipped]

\* A row of table books (the columns id, book_id, title, inserted_chunks,
\* is_active), and what select(models.Book) gives for a book_id: the row as
\* the session loads it, or None.
BookRow(id, book_id, inserted_chunks) ==
    [id |-> id, book_id |-> book_id, title |-> "None",
     inserted_chunks |-> inserted_chunks, is_active |-> TRUE]

NoBook == [found |-> FALSE, row |-> BookRow(0, "", 0)]

select_book(book_id) ==
    IF \E b \in books : b.book_id = book_id
    THEN [found |-> TRUE, row |-> CHOOSE b \in books : b.book_id = book_id]
    ELSE NoBook

IdleReq ==
    [pc |-> "IDLE", book_id |-> "", pdf_bytes |-> <<>>, chapters |-> <<>>,
     prepared |-> <<>>, existing_hashes |-> {}, to_index |-> <<>>,
     skipped |-> 0, embeddings |-> <<>>, has_index |-> FALSE, j |-> 0,
     book |-> NoBook, res |-> NoRes,
     steps |-> <<>>, failure |-> "none", embed_at |-> -1, doneBefore |-> {}]

\* The local variable backoff before the first sleep.
NoBackoff == [whole |-> 0, side |-> "zero", ulps |-> 0, ulp |-> 0]

HfIdle ==
    [pc |-> "idle", texts |-> <<>>, i |-> 0, attempt |-> 0,
     all_embeddings |-> <<>>, result |-> <<>>, backoff |-> NoBackoff,
     accepted |-> <<>>, failures |-> <<>>, calls |-> <<>>]

IngestInit ==
    /\ reqs = [r \in Reqs |-> IdleReq]
    /\ ledger = {}
    /\ index = [exists |-> FALSE, dim |-> 0]
    /\ vectors = {}
    /\ books = {}
    /\ book_seq = 1

UpIdle == [pc |-> "idle", upserts |-> <<>>, j |-> 0, batches |-> <<>>, before |-> {}]
DelIdle == [pc |-> "idle", book_id |-> "", remove_vector |-> FALSE, book |-> NoBook,
            vector_error |-> FALSE, ledger_error |-> FALSE, steps |-> <<>>]
RtIdle == [pc |-> "idle", scope_book_id |-> "", scope_chapter |-> [kind |-> "none"],
           top_k |-> 0, queries |-> <<>>, matches |-> <<>>, results |-> <<>>,
           error |-> "none"]
CkIdle == [pc |-> "idle", text |-> <<>>, tokens |-> <<>>, chunk_size |-> 0,
           overlap |-> 0, i |-> 0, chunks |-> <<>>]

\* The uploaded bytes are what pdfplumber reads from them, or that it raises.
Unreadable == [readable |-> FALSE, pages |-> <<>>]

\* A form field that holds a page number, when it is absent.
NotGiven == [given |-> FALSE, v |-> 0]

RqIdle == [pc |-> "idle", is_pdf |-> FALSE, content |-> Unreadable, book_id |-> "",
           res |-> [book_id |-> "", inserted_chunks |-> 0, skipped_chunks |-> 0],
           chapters_json |-> [form |-> "none"], chapter_name |-> "",
           start_page |-> NotGiven, end_page |-> NotGiven,
           chapters |-> <<>>, status |-> 0, detail |-> ""]

\* The route update_book before a request: the body, and the row it loaded.
UbIdle == [pc |-> "idle", book_id |-> "", book |-> NoBook, status |-> 0,
           data |-> [keys |-> {}, title |-> "None", is_active |-> FALSE,
                     inserted_chunks |-> [json |-> "badstr"]]]

OpsIdle ==
    /\ ups = UpIdle /\ del = DelIdle /\ rt = RtIdle /\ ck = CkIdle /\ rq = RqIdle
    /\ ub = UbIdle

Init == IngestInit /\ hf = HfIdle /\ OpsIdle

(* --------------------------- ingest: steps ---------------------------- *)

Fail(r, step, why) ==
    [reqs EXCEPT ![r].pc = "FAILED", ![r].failure = why,
                 ![r].steps = Append(@, step)]

\* The request arrives at ingest_book_and_record with one of the uploads.
ReceiveFrom(r, uploads) ==
    /\ reqs[r].pc = "IDLE"
    /\ \A q \in Reqs : q < r => reqs[q].pc # "IDLE"
    /\ \E b \in BookIds, up \in uploads :
          reqs' = [reqs EXCEPT ![r].pc = "RECEIVED", ![r].book_id = b,
                               ![r].pdf_bytes = up.pdf, ![r].chapters = up.chapters,
                               ![r].doneBefore =
                                   {q \in Reqs : reqs[q].pc = "DONE"}]
    /\ UNCHANGED <<ledger, index, vectors, books, book_seq, hf, ops>>


\* prepare_chunks_from_pdf_sync, and the return when nothing was prepared.
Chunk(r) ==
    /\ reqs[r].pc = "RECEIVED"
    /\ LET prepared == prepare_chunks_from_pdf_sync(r, reqs[r].pdf_bytes,
                           reqs[r].book_id, reqs[r].chapters)
       IN  reqs' = [reqs EXCEPT ![r].pc = "CHUNKED", ![r].prepared = prepared,
                        ![r].steps = Append(@, "chunk"),
                        ![r].res = IF prepared = <<>> THEN Result(0, 0) ELSE @]
    /\ UNCHANGED <<ledger, index, vectors, books, book_seq, hf, ops>>

\* Variant: the hashes of every book, the where clause left out.
ExistingHashesAnyBook(rows, book_id) == {row.chunk_hash : row \in rows}

\* select(Chunk.chunk_hash).where(Chunk.book_id == book_id)
ExistingHashes(rows, book_id) ==
    {row.chunk_hash : row \in {x \in rows : x.book_id = book_id}}

\* Variant: every prepared chunk is indexed again.
ToIndexNoFilter(prepared, existing_hashes) == prepared

\* Variant: the chunks that pass the filter, last candidate first.
ToIndexReordered(prepared, existing_hashes) ==
    LET kept == SelectSeq(prepared, LAMBDA p : p.chunk_hash \notin existing_hashes)
    IN  [k \in 1..Len(kept) |-> kept[Len(kept) + 1 - k]]

\* to_index = [p for p in prepared if p["chunk_hash"] not in existing_hashes]
ToIndex(prepared, existing_hashes) ==
    SelectSeq(prepared, LAMBDA p : p.chunk_hash \notin existing_hashes)

\* Variant: no early return, the ingest goes on with an empty to_index.
AfterDedupNoShortCircuit(to_index, skipped) == NoRes

\* After the dedup filter: the early return when nothing is left to index.
AfterDedup(to_index, skipped) ==
    IF to_index = <<>> THEN Result(0, skipped) ELSE NoRes

\* The ledger read of existing hashes and the dedup filter.
Dedup(r) ==
    /\ reqs[r].pc = "CHUNKED"
    /\ ~reqs[r].res.returned
    /\ LET existing == ExistingHashes(ledger, reqs[r].book_id)
           to_index == ToIndex(reqs[r].prepared, existing)
           skipped  == Len(reqs[r].prepared) - Len(to_index)
       IN  reqs' = [reqs EXCEPT ![r].pc = "DEDUPED",
                        ![r].existing_hashes = existing,
                        ![r].to_index = to_index,
                        ![r].skipped = skipped,
                        ![r].steps = Append(@, "dedup"),
                        ![r].res = AfterDedup(to_index, skipped)]
    /\ UNCHANGED <<ledger, index, vectors, books, book_seq, hf, ops>>

Texts(to_index) == [k \in 1..Len(to_index) |-> to_index[k].text]

\* Variant: when the embedder raises, the ingest goes on with the chunks of
\* the sub-batches before the failing one.
EmbedKeepsEarlierSubBatches(r, provs) ==
    /\ reqs[r].pc = "DEDUPED"
    /\ ~reqs[r].res.returned
    /\ \E prov \in provs :
          LET texts == Texts(reqs[r].to_index)
              out   == _hf_request_embeddings_sync(texts, prov)
              kept  == Slice(reqs[r].to_index, 0, out.at)
          IN  IF out.raised /\ out.at > 0
              THEN reqs' = [reqs EXCEPT ![r].pc = "EMBEDDED",
                                ![r].to_index = kept,
                                ![r].embeddings =
                                    _hf_request_embeddings_sync(Texts(kept), "array2d").value,
                                ![r].embed_at = out.at,
                                ![r].steps = Append(@, "embed")]
              ELSE IF out.raised \/ out.value = <<>> \/ Len(out.value) # Len(texts)
              THEN reqs' = [Fail(r, "embed", "embed") EXCEPT ![r].embed_at = out.at]
              ELSE reqs' = [reqs EXCEPT ![r].pc = "EMBEDDED",
                                ![r].embeddings = out.value,
                                ![r].steps = Append(@, "embed")]
    /\ UNCHANGED <<ledger, index, vectors, books, book_seq, hf, ops>>

\* _hf_request_embeddings_sync(texts) and the length check that follows it,
\* for the provider behaving in one of the ways provs.
EmbedWith(r, provs) ==
    /\ reqs[r].pc = "DEDUPED"
    /\ ~reqs[r].res.returned
    /\ \E prov \in provs :
          LET texts == Texts(reqs[r].to_index)
              out   == _hf_request_embeddings_sync(texts, prov)
          IN  IF out.raised \/ out.value = <<>> \/ Len(out.value) # Len(texts)
              THEN reqs' = [Fail(r, "embed", "embed") EXCEPT ![r].embed_at = out.at]
              ELSE reqs' = [reqs EXCEPT ![r].pc = "EMBEDDED",
                                ![r].embeddings = out.value,
                                ![r].steps = Append(@, "embed")]
    /\ UNCHANGED <<ledger, index, vectors, books, book_seq, hf, ops>>


\* _ensure_index_exists_sync, first call: pc.has_index(PINECONE_INDEX), and,
\* when the index exists, the call pc.Index(PINECONE_INDEX) that returns the
\* handle; either call may raise.
EnsureHasIndex(r) ==
    /\ reqs[r].pc = "EMBEDDED"
    /\ \/ reqs' = [reqs EXCEPT ![r].has_index = index.exists,
                       ![r].pc = IF index.exists THEN "ENSURED" ELSE "CREATING",
                       ![r].steps = Append(@, "ensure")]
       \/ reqs' = Fail(r, "ensure", "ensure")
    /\ UNCHANGED <<ledger, index, vectors, books, book_seq, hf, ops>>

\* Variant: the index is created again, with the caller's dimension, also
\* when it exists.
EnsureCreateAgain(r) ==
    /\ reqs[r].pc = "CREATING"
    /\ \/ /\ index' = [exists |-> TRUE, dim |-> Len(reqs[r].embeddings[1])]
          /\ \/ reqs' = [reqs EXCEPT ![r].pc = "ENSURED"]
             \/ reqs' = [reqs EXCEPT ![r].pc = "FAILED", ![r].failure = "ensure"]
       \/ /\ reqs' = [reqs EXCEPT ![r].pc = "FAILED", ![r].failure = "ensure"]
          /\ UNCHANGED index
    /\ UNCHANGED <<ledger, vectors, books, book_seq, hf, ops>>

\* _ensure_index_exists_sync after has_index returned False: the call
\* pc.create_index(dimension=dim), which the vector store refuses for an
\* index that exists, and then the call pc.Index(PINECONE_INDEX) that returns
\* the handle. Either call may raise; when the second one does, the index
\* has been created and the request fails.
EnsureCreate(r) ==
    /\ reqs[r].pc = "CREATING"
    /\ IF index.exists
       THEN /\ reqs' = [reqs EXCEPT ![r].pc = "FAILED", ![r].failure = "ensure"]
            /\ UNCHANGED index
       ELSE \/ /\ index' = [exists |-> TRUE, dim |-> Len(reqs[r].embeddings[1])]
               /\ \/ reqs' = [reqs EXCEPT ![r].pc = "ENSURED"]
                  \/ reqs' = [reqs EXCEPT ![r].pc = "FAILED",
                                          ![r].failure = "ensure"]
            \/ /\ reqs' = [reqs EXCEPT ![r].pc = "FAILED", ![r].failure = "ensure"]
               /\ UNCHANGED index
    /\ UNCHANGED <<ledger, vectors, books, book_seq, hf, ops>>

\* The chunk rows added to the session.
ChunkRows(book_id, to_index) ==
    [k \in 1..Len(to_index) |->
        [chunk_id |-> to_index[k].chunk_id,
         book_id |-> book_id,
         chapter_name |-> to_index[k].chapter_name,
         page |-> to_index[k].page,
         chunk_index |-> to_index[k].chunk_index,
         chunk_hash |-> to_index[k].chunk_hash,
         full_text |-> to_index[k].text]]

\* Variant: the metadata holds the whole text of the chunk.
UpsertsFullText(book_id, to_index, embeddings) ==
    [k \in 1..Len(to_index) |->
        [id |-> to_index[k].chunk_id,
         values |-> embeddings[k],
         metadata |-> [book_id |-> book_id,
                       chapter_name |-> to_index[k].chapter_name,
                       page |-> to_index[k].page,
                       chunk_index |-> to_index[k].chunk_index,
                       text_preview |-> to_index[k].text]]]

\* The upsert records built from to_index and the embeddings.
Upserts(book_id, to_index, embeddings) ==
    [k \in 1..Len(to_index) |->
        [id |-> to_index[k].chunk_id,
         values |-> embeddings[k],
         metadata |-> [book_id |-> book_id,
                       chapter_name |-> to_index[k].chapter_name,
                       page |-> to_index[k].page,
                       chunk_index |-> to_index[k].chunk_index,
                       text_preview |-> Slice(to_index[k].text, 0, 800)]]]

\* Variant: a record is added next to the one with its id.
IndexUpsertKeepsOld(held, batch) == held \cup {batch[k] : k \in 1..Len(batch)}

\* index.upsert(vectors=batch): a record replaces the one with its id, the
\* last record of the batch with an id being the one that stays.
IndexUpsert(held, batch) ==
    {v \in held : \A k \in 1..Len(batch) : batch[k].id # v.id}
    \cup {batch[k] : k \in {k \in 1..Len(batch) :
                                \A l \in (k + 1)..Len(batch) :
                                    batch[l].id # batch[k].id}}

\* Variant: the chunk rows are written to the ledger before the vectors are.
UpsertAfterLedgerWrite(r) ==
    /\ reqs[r].pc = "ENSURED"
    /\ LET upserts == Upserts(reqs[r].book_id, reqs[r].to_index, reqs[r].embeddings)
           new == ChunkRows(reqs[r].book_id, reqs[r].to_index)
           j == reqs[r].j
       IN  /\ ledger' = ledger \cup {new[k] : k \in 1..Len(new)}
           /\ \/ /\ vectors' = IndexUpsert(vectors, Slice(upserts, j, j + BATCH))
                 /\ reqs' = IF j + BATCH < Len(upserts)
                            THEN [reqs EXCEPT ![r].j = j + BATCH]
                            ELSE [reqs EXCEPT ![r].pc = "INDEXED",
                                              ![r].steps = Append(@, "upsert")]
              \/ /\ reqs' = Fail(r, "upsert", "upsert")
                 /\ UNCHANGED vectors
    /\ UNCHANGED <<index, books, book_seq, hf, ops>>

\* _upsert_vectors_sync, one call of the vector store per step: the batch
\* upserts[j:j+BATCH] is written by index.upsert, and after the last batch
\* the function returns; between two batches the request is still inside
\* the function and the other requests run. The call raises with nothing
\* of the batch written; before the first batch that is also the outcome of
\* a missing client or of pc.Index(PINECONE_INDEX) raising. The list is never
\* empty here.
Upsert(r) ==
    /\ reqs[r].pc = "ENSURED"
    /\ LET upserts == Upserts(reqs[r].book_id, reqs[r].to_index, reqs[r].embeddings)
           j == reqs[r].j
       IN  \/ /\ vectors' = IndexUpsert(vectors, Slice(upserts, j, j + BATCH))
              /\ reqs' = IF j + BATCH < Len(upserts)
                         THEN [reqs EXCEPT ![r].j = j + BATCH]
                         ELSE [reqs EXCEPT ![r].pc = "INDEXED",
                                           ![r].steps = Append(@, "upsert")]
           \/ /\ reqs' = Fail(r, "upsert", "upsert")
              /\ UNCHANGED vectors
    /\ UNCHANGED <<ledger, index, books, book_seq, hf, ops>>

\* Variant: table chunks without uq_book_chunkhash.
CommitAllowedNoUnique(rows, new) ==
    /\ \A k \in 1..Len(new) : \A row \in rows : row.chunk_id # new[k].chunk_id
    /\ \A j, k \in 1..Len(new) : j # k => new[j].chunk_id # new[k].chunk_id

\* Whether the INSERTs of one commit pass the constraints of table chunks:
\* primary key chunk_id, and uq_book_chunkhash on (book_id, chunk_hash).
CommitAllowed(rows, new) ==
    /\ \A k \in 1..Len(new) : \A row \in rows :
          /\ row.chunk_id # new[k].chunk_id
          /\ ~(row.book_id = new[k].book_id /\ row.chunk_hash = new[k].chunk_hash)
    /\ \A j, k \in 1..Len(new) : j # k =>
          /\ new[j].chunk_id # new[k].chunk_id
          /\ ~(new[j].book_id = new[k].book_id /\ new[j].chunk_hash = new[k].chunk_hash)

\* Variant: the ledger write comes before the vector upsert.
PersistBeforeUpsert(r) ==
    /\ reqs[r].pc = "ENSURED"
    /\ LET new == ChunkRows(reqs[r].book_id, reqs[r].to_index)
       IN  IF CommitAllowed(ledger, new)
           THEN /\ ledger' = ledger \cup {new[k] : k \in 1..Len(new)}
                /\ reqs' = [reqs EXCEPT ![r].pc = "PERSISTED",
                                ![r].steps = Append(@, "persist"),
                                ![r].res = Result(Len(reqs[r].to_index),
                                                  reqs[r].skipped)]
           ELSE FALSE
    /\ UNCHANGED <<index, vectors, books, book_seq, hf, ops>>

\* Variant: every row is committed on its own, and the rows before the one
\* that the database refuses stay.
PersistRowByRow(r) ==
    /\ reqs[r].pc = "INDEXED"
    /\ LET new == ChunkRows(reqs[r].book_id, reqs[r].to_index)
           bad == {k \in 1..Len(new) : ~CommitAllowed(ledger, SubSeq(new, 1, k))}
       IN  IF bad = {}
           THEN /\ ledger' = ledger \cup {new[k] : k \in 1..Len(new)}
                /\ reqs' = [reqs EXCEPT ![r].pc = "PERSISTED",
                                ![r].steps = Append(@, "persist"),
                                ![r].res = Result(Len(reqs[r].to_index),
                                                  reqs[r].skipped)]
           ELSE /\ ledger' = ledger \cup {new[k] : k \in 1..Len(new) \ bad}
                /\ reqs' = Fail(r, "persist", "integrity")
    /\ UNCHANGED <<index, vectors, books, book_seq, hf, ops>>

\* The ledger write: db.add of every row, then one commit, which the
\* database refuses as a whole when a constraint is violated.
Persist(r) ==
    /\ reqs[r].pc = "INDEXED"
    /\ LET new == ChunkRows(reqs[r].book_id, reqs[r].to_index)
       IN  \/ IF CommitAllowed(ledger, new)
              THEN /\ ledger' = ledger \cup {new[k] : k \in 1..Len(new)}
                   /\ reqs' = [reqs EXCEPT ![r].pc = "PERSISTED",
                                   ![r].steps = Append(@, "persist"),
                                   ![r].res = Result(Len(reqs[r].to_index),
                                                     reqs[r].skipped)]
              ELSE /\ reqs' = Fail(r, "persist", "integrity")
                   /\ UNCHANGED ledger
           \/ /\ reqs' = Fail(r, "persist", "database")
              /\ UNCHANGED ledger
    /\ UNCHANGED <<index, vectors, books, book_seq, hf, ops>>

\* Variant: the orchestrator goes on to the book record also after
\* upsert_book_to_pinecone raised.
SelectBookAfterFailure(r) ==
    /\ reqs[r].pc \in {"CHUNKED", "DEDUPED", "PERSISTED", "FAILED"}
    /\ reqs[r].pc # "FAILED" => reqs[r].res.returned
    /\ reqs' = [reqs EXCEPT ![r].pc = "SELECTED",
                    ![r].book = select_book(reqs[r].book_id)]
    /\ UNCHANGED <<ledger, index, vectors, books, book_seq, hf, ops>>

\* ingest_book_and_record after upsert_book_to_pinecone returned:
\* select(models.Book).where(Book.book_id == book_id_final)
SelectBook(r) ==
    /\ reqs[r].pc \in {"CHUNKED", "DEDUPED", "PERSISTED"}
    /\ reqs[r].res.returned
    /\ reqs' = [reqs EXCEPT ![r].pc = "SELECTED",
                    ![r].book = select_book(reqs[r].book_id)]
    /\ UNCHANGED <<ledger, index, vectors, books, book_seq, hf, ops>>

\* The value written to Book.inserted_chunks.
InsertedChunksValue(r) == reqs[r].res.inserted

\* book.inserted_chunks = inserted, or db.add(Book(...)); then db.commit().
\* The flush sends an UPDATE of the loaded row (by its primary key id) only
\* when the value differs from the loaded one, and raises StaleDataError
\* when the row is gone; it sends an INSERT for a new book, which takes the
\* next id of the table (MySQL AUTO_INCREMENT, also when the INSERT is
\* refused) and which the unique index on book_id may refuse.
CommitBook(r) ==
    /\ reqs[r].pc = "SELECTED"
    /\ LET book == reqs[r].book
           same == book.row.inserted_chunks = InsertedChunksValue(r)
       IN  IF book.found /\ same
           THEN /\ reqs' = [reqs EXCEPT ![r].pc = "COMMITTED",
                                ![r].steps = Append(@, "record")]
                /\ UNCHANGED <<books, book_seq>>
           ELSE IF book.found /\ (\E b \in books : b.id = book.row.id)
           THEN /\ books' = {IF b.id = book.row.id
                             THEN [b EXCEPT !.inserted_chunks = InsertedChunksValue(r)]
                             ELSE b : b \in books}
                /\ reqs' = [reqs EXCEPT ![r].pc = "COMMITTED",
                                ![r].book.row.inserted_chunks = InsertedChunksValue(r),
                                ![r].steps = Append(@, "record")]
                /\ UNCHANGED book_seq
           ELSE IF book.found
           THEN /\ reqs' = Fail(r, "record", "stale")
                /\ UNCHANGED <<books, book_seq>>
           ELSE IF \E b \in books : b.book_id = reqs[r].book_id
           THEN /\ reqs' = Fail(r, "record", "integrity")
                /\ book_seq' = book_seq + 1
                /\ UNCHANGED books
           ELSE LET added == BookRow(book_seq, reqs[r].book_id, InsertedChunksValue(r))
                IN  /\ books' = books \cup {added}
                    /\ book_seq' = book_seq + 1
                    /\ reqs' = [reqs EXCEPT ![r].pc = "COMMITTED",
                                    ![r].book = [found |-> TRUE, row |-> added],
                                    ![r].steps = Append(@, "record")]
    /\ UNCHANGED <<ledger, index, vectors, hf, ops>>

\* db.refresh(book): the row is read again by its primary key, and the
\* session raises InvalidRequestError when it is gone.
RefreshBook(r) ==
    /\ reqs[r].pc = "COMMITTED"
    /\ reqs' = IF \E b \in books : b.id = reqs[r].book.row.id
               THEN [reqs EXCEPT ![r].pc = "DONE",
                         ![r].book.row = CHOOSE b \in books : b.id = reqs[r].book.row.id]
               ELSE [reqs EXCEPT ![r].pc = "FAILED", ![r].failure = "refresh"]
    /\ UNCHANGED <<ledger, index, vectors, books, book_seq, hf, ops>>

\* The steps of the ingest, for requests that arrive with one of the uploads
\* and a provider that behaves in one of the ways provs.
IngestWith(uploads, provs) ==
    \E r \in Reqs :
        \/ ReceiveFrom(r, uploads)
        \/ Chunk(r)
        \/ Dedup(r)
        \/ EmbedWith(r, provs)
        \/ EnsureHasIndex(r)
        \/ EnsureCreate(r)
        \/ Upsert(r)
        \/ Persist(r)
        \/ SelectBook(r)
        \/ CommitBook(r)
        \/ RefreshBook(r)

Spec == Init /\ [][IngestWith(Uploads, IngestProviders)]_vars

\* An upload without chapters.
Whole(pdf) == [pdf |-> pdf, chapters |-> NoChapters]

\* The ingest of more than one sub-batch, with a provider that fails on the
\* second sub-batch only and providers whose vectors differ in dimension.
SpecWide == Init /\ [][IngestWith({Whole(PdfLong)}, WideProviders)]_vars

\* The ingest of a two-page PDF: a first page of ScenarioTokens distinct
\* one-character tokens, and a second page without text.
PdfScenario == <<join([k \in 1..ScenarioTokens |-> <<k>>]), <<>>>>

SpecScenario == Init /\ [][IngestWith({Whole(PdfScenario)}, IngestProviders)]_vars

\* The ingests of a one-page PDF and of a three-page PDF whose second page
\* has the text of that one page.
PdfBAC == << <<2>>, <<1>>, <<3>> >>

SpecDedup == Init /\ [][IngestWith({Whole(PdfA), Whole(PdfBAC)}, IngestProviders)]_vars

\* Ingests of a PDF of two pages: one token of WideToken characters, longer
\* than the text preview of the index metadata, and a short page.
SpecPreview ==
    Init /\ [][IngestWith({Whole(<< [k \in 1..WideToken |-> 1], <<2>> >>)},
                          IngestProviders)]_vars

\* A caller that sends a request only when the requests before it have
\* ended: each request comes after the result or the failure of the last.
ReceiveNext(r, uploads) ==
    /\ \A q \in Reqs : q < r => reqs[q].pc \in {"DONE", "FAILED"}
    /\ ReceiveFrom(r, uploads)

SpecRetry ==
    Init /\ [][\E r \in Reqs :
                  \/ ReceiveNext(r, {Whole(PdfA), Whole(PdfBAC)})
                  \/ Chunk(r)
                  \/ Dedup(r)
                  \/ EmbedWith(r, IngestProviders)
                  \/ EnsureHasIndex(r)
                  \/ EnsureCreate(r)
                  \/ Upsert(r)
                  \/ Persist(r)
                  \/ SelectBook(r)
                  \/ CommitBook(r)
                  \/ RefreshBook(r)]_vars

\* extract_text_from_pdf_bytes_sync raises on the uploaded bytes (pdfplumber
\* cannot read them): prepare_chunks_from_pdf_sync raises.
ChunkRaises(r) ==
    /\ reqs[r].pc = "RECEIVED"
    /\ reqs' = Fail(r, "chunk", "extract")
    /\ UNCHANGED <<ledger, index, vectors, books, book_seq, hf, ops>>

\* The ingest with every failure of its steps, unreadable bytes included.
SpecFailure ==
    Init /\ [][\/ IngestWith({Whole(PdfA), Whole(PdfBAC)}, IngestProviders)
               \/ \E r \in Reqs : ChunkRaises(r)]_vars

(* ------------------ the embedding client, step by step ---------------- *)

\* Input lists of SpecEmbed: text k is the single character k.
TextList(n) == [k \in 1..n |-> <<k>>]

\* The lone vector of the responses that carry a single vector.
LoneVector == <<7, 8, 9>>

RespKinds ==
    {"array2d", "list", "flat1d", "dicts", "dict2d", "tokens", "single1d",
     "list1d",
     "one-in-list", "junk-extra",
     "raise", "junk", "junk-item", "array3d", "dict1d", "too-many"}

\* The response of each kind for a sub-batch.
Response(kind, batch) ==
    LET n == Len(batch)
        vec(k) == PyList(Nums(E(batch[k])))
    IN  CASE kind = "array2d" -> RespArray2D(batch)
          [] kind = "list" -> RespPerItemList(batch)
          [] kind = "flat1d" -> RespFlat1D(batch)
          [] kind = "dicts" ->
                PyList([k \in 1..n |-> PyDict("embedding", vec(k))])
          [] kind = "dict2d" ->
                PyDict("embeddings", PyList([k \in 1..n |-> vec(k)]))
          [] kind = "tokens" ->
                PyList([k \in 1..n |-> PyList(<<vec(k), vec(k)>>)])
          [] kind = "single1d" -> NdArray(Nums(LoneVector))
          [] kind = "list1d" -> PyList(Nums(LoneVector))
          [] kind = "one-in-list" -> PyList(<<PyList(Nums(LoneVector))>>)
          [] kind = "junk-extra" ->
                PyList([k \in 1..(n + 1) |-> IF k = 1 THEN PyStr ELSE vec(k - 1)])
          [] kind = "junk" -> PyStr
          [] kind = "junk-item" ->
                PyList([k \in 1..n |-> IF k = Min(2, n) THEN PyStr ELSE vec(k)])
          [] kind = "array3d" ->
                NdArray([k \in 1..n |->
                            NdArray(<<NdArray(Nums(E(batch[k]))),
                                      NdArray(Nums(E(batch[k])))>>)])
          [] kind = "dict1d" -> PyDict("embedding", PyList(Nums(ConcatE(batch))))
          [] kind = "too-many" ->
                PyList([k \in 1..(n + 1) |-> PyList(Nums(LoneVector))])
          [] OTHER -> Raises

HfStart(texts) ==
    [pc |-> "request", texts |-> texts, i |-> 0, attempt |-> 0,
     all_embeddings |-> <<>>, result |-> <<>>, backoff |-> NoBackoff,
     accepted |-> <<>>, failures |-> <<>>, calls |-> <<>>]

EmbedInit ==
    /\ IngestInit
    /\ OpsIdle
    /\ hf \in {HfStart(TextList(n)) : n \in 0..MaxTexts}

HfBatch == Slice(hf.texts, hf.i, hf.i + HF_BATCH_SIZE)

\* Variant: the vectors of a pass are put in front of the earlier ones.
AccumulateInFront(all_embeddings, appended) == appended \o all_embeddings

\* all_embeddings after the appends of one pass through the try block.
Accumulate(all_embeddings, appended) == all_embeddings \o appended

\* The provider answers and the response is resolved: break, next sub-batch.
HfResolve ==
    /\ hf.pc = "request"
    /\ hf.i < Len(hf.texts)
    /\ \E kind \in RespKinds :
          LET out == hf_attempt(Response(kind, HfBatch), Len(HfBatch))
          IN  /\ out.ok
              /\ hf' = [hf EXCEPT
                        !.all_embeddings = Accumulate(@, out.appended),
                        !.i = @ + HF_BATCH_SIZE,
                        !.attempt = 0,
                        !.accepted = Append(@, [start |-> hf.i, kind |-> kind,
                                                branch |-> out.branch]),
                        !.failures = Append(@, hf.attempt),
                        !.calls = Append(@, hf.attempt + 1)]
    /\ UNCHANGED <<reqs, ledger, index, vectors, books, book_seq, ops>>

\* random.random(): a double in [0, 1), a multiple of 2^-53, written by its
\* distance in steps of 2^-53 from 0 (side "zero") or from 1 (side "one").
Jitters ==
    {[side |-> "zero", ulps |-> u] : u \in 0..MaxUlps}
    \cup {[side |-> "one", ulps |-> g] : g \in 1..MaxUlps}

\* a / m rounded to the nearest integer, ties to the even one.
RoundHalfEven(a, m) ==
    LET q == a \div m
        r == a % m
    IN  IF 2 * r < m THEN q
        ELSE IF 2 * r > m THEN q + 1
        ELSE IF q % 2 = 0 THEN q ELSE q + 1

\* Variant: 2 ** attempt, the exponent not lowered by one.
backoff_from_two(attempt, jit) ==
    LET r == RoundHalfEven(jit.ulps, 2 ^ (attempt + 1))
    IN  IF jit.side = "one" /\ r = 0
        THEN [whole |-> 2 ^ attempt + 1, side |-> "zero", ulps |-> 0,
              ulp |-> attempt - 52]
        ELSE [whole |-> 2 ^ attempt, side |-> jit.side, ulps |-> r,
              ulp |-> attempt - 52]

\* (2 ** (attempt - 1)) + random.random() in double precision: the sum lies
\* in [2^(attempt-1), 2^attempt], where doubles are 2^(attempt-53) apart, so
\* the jitter is rounded to a multiple of 2^attempt steps of 2^-53.  The
\* value is whole + ulps * 2^ulp (side "zero") or whole + 1 - ulps * 2^ulp
\* (side "one", ulps > 0).
backoff(attempt, jit) ==
    LET r == RoundHalfEven(jit.ulps, 2 ^ attempt)
    IN  IF jit.side = "one" /\ r = 0
        THEN [whole |-> 2 ^ (attempt - 1) + 1, side |-> "zero", ulps |-> 0,
              ulp |-> attempt - 53]
        ELSE [whole |-> 2 ^ (attempt - 1), side |-> jit.side, ulps |-> r,
              ulp |-> attempt - 53]

\* Variant: the except block allows one more retry.
GivesUpOneLater(attempt) == attempt > HF_MAX_RETRIES + 1

\* Whether the except block gives up after this failure.
GivesUp(attempt) == attempt > HF_MAX_RETRIES

\* The call raises or the response is not resolved: the except block counts
\* the attempt and either re-raises, or sleeps for backoff seconds and tries
\* the sub-batch again.
HfFail ==
    /\ hf.pc = "request"
    /\ hf.i < Len(hf.texts)
    /\ \E kind \in RespKinds :
          LET out == hf_attempt(Response(kind, HfBatch), Len(HfBatch))
          IN  /\ ~out.ok
              /\ IF GivesUp(hf.attempt + 1)
                 THEN hf' = [hf EXCEPT
                             !.all_embeddings = Accumulate(@, out.appended),
                             !.attempt = @ + 1,
                             !.pc = "raised"]
                 ELSE \E jit \in Jitters :
                         hf' = [hf EXCEPT
                                !.all_embeddings = Accumulate(@, out.appended),
                                !.attempt = @ + 1,
                                !.backoff = backoff(hf.attempt + 1, jit)]
    /\ UNCHANGED <<reqs, ledger, index, vectors, books, book_seq, ops>>

\* Variant: the result is cut to the number of texts instead of checked.
HfFinishTruncates ==
    /\ hf.pc = "request"
    /\ hf.i >= Len(hf.texts)
    /\ hf' = [hf EXCEPT !.pc = "returned",
                        !.result = Slice(hf.all_embeddings, 0, Len(hf.texts))]
    /\ UNCHANGED <<reqs, ledger, index, vectors, books, book_seq, ops>>

\* The final check of the count, and the return.
HfFinish ==
    /\ hf.pc = "request"
    /\ hf.i >= Len(hf.texts)
    /\ IF hf.texts # <<>> /\ Len(hf.all_embeddings) # Len(hf.texts)
       THEN hf' = [hf EXCEPT !.pc = "raised"]
       ELSE hf' = [hf EXCEPT !.pc = "returned", !.result = hf.all_embeddings]
    /\ UNCHANGED <<reqs, ledger, index, vectors, books, book_seq, ops>>

SpecEmbed == EmbedInit /\ [][HfResolve \/ HfFail \/ HfFinish]_vars

(* ----------------- the vector upsert, batch by batch ------------------ *)

\* Record number k of an input list whose ids repeat with period m.
UpRecord(k, m) ==
    [id |-> <<1, k % m>>,
     values |-> <<k>>,
     metadata |-> [book_id |-> "A", chapter_name |-> "full", page |-> k,
                   chunk_index |-> 0, text_preview |-> <<k>>]]

UpList(n, m) == [k \in 1..n |-> UpRecord(k, m)]

\* _upsert_vectors_sync is called with a list of n records. The periods of
\* the ids: all distinct, two ids by turns, and a period that makes ids of a
\* later batch repeat ids of an earlier one. What the index holds before
\* the run: nothing, or an older record whose id is also in the list.
UpsertInit ==
    /\ reqs = [r \in Reqs |-> IdleReq]
    /\ ledger = {} /\ books = {} /\ book_seq = 1
    /\ hf = HfIdle
    /\ del = DelIdle /\ rt = RtIdle /\ ck = CkIdle /\ rq = RqIdle /\ ub = UbIdle
    /\ \E n \in 0..MaxRecords, m \in {MaxRecords + 1, 2, BATCH + 1},
          held \in {{}, {[UpRecord(1, 2) EXCEPT !.values = <<0>>]}} :
          /\ ups = [UpIdle EXCEPT !.pc = "called", !.upserts = UpList(n, m),
                                  !.before = held]
          /\ vectors = held
          /\ index = [exists |-> TRUE, dim |-> 1]

\* Before the loop: the check of the client and the call
\* index = pc.Index(PINECONE_INDEX), which raise with nothing written.
UpIndex ==
    /\ ups.pc = "called"
    /\ \/ ups' = [ups EXCEPT !.pc = "loop"]
       \/ ups' = [ups EXCEPT !.pc = "raised"]
    /\ UNCHANGED <<reqs, ledger, index, vectors, books, book_seq, hf, del, rt, ck, rq, ub>>

\* One pass of the for loop: index.upsert(vectors=upserts[j:j+BATCH]), which
\* may raise.
UpBatch ==
    /\ ups.pc = "loop"
    /\ ups.j < Len(ups.upserts)
    /\ LET batch == Slice(ups.upserts, ups.j, ups.j + BATCH)
       IN  \/ /\ vectors' = IndexUpsert(vectors, batch)
              /\ ups' = [ups EXCEPT !.j = @ + BATCH,
                                    !.batches = Append(@, batch)]
           \/ /\ ups' = [ups EXCEPT !.pc = "raised"]
              /\ UNCHANGED vectors
    /\ UNCHANGED <<reqs, ledger, index, books, book_seq, hf, del, rt, ck, rq, ub>>

\* The range is exhausted: the function returns.
UpReturn ==
    /\ ups.pc = "loop"
    /\ ups.j >= Len(ups.upserts)
    /\ ups' = [ups EXCEPT !.pc = "done"]
    /\ UNCHANGED <<reqs, ledger, index, vectors, books, book_seq, hf, del, rt, ck, rq, ub>>

SpecUpsert == UpsertInit /\ [][UpIndex \/ UpBatch \/ UpReturn]_vars

(* ------------------------- deletion of a book ------------------------- *)

\* The route delete_book: the book row is selected; 404 when there is none.
DelReceive ==
    /\ del.pc = "idle"
    /\ \E b \in BookIds, remove_vector \in BOOLEAN :
          del' = [del EXCEPT
                  !.book_id = b,
                  !.remove_vector = remove_vector,
                  !.book = select_book(b),
                  !.pc = IF ~select_book(b).found THEN "NOT_FOUND"
                         ELSE IF remove_vector THEN "VECTORS" ELSE "BOOK"]
    /\ UNCHANGED <<reqs, ledger, index, vectors, books, book_seq, hf, ups, rt, ck, rq, ub>>

\* Variant: an error of the vector store ends the deletion.
DelVectorsErrorAborts ==
    /\ del.pc = "VECTORS"
    /\ \/ /\ vectors' = {v \in vectors : v.metadata.book_id # del.book_id}
          /\ del' = [del EXCEPT !.pc = "LEDGER", !.steps = Append(@, "vectors")]
       \/ /\ del' = [del EXCEPT !.pc = "BOOK", !.vector_error = TRUE,
                                !.steps = Append(@, "vectors")]
          /\ UNCHANGED vectors
    /\ UNCHANGED <<reqs, ledger, index, books, book_seq, hf, ups, rt, ck, rq, ub>>

\* delete_book_from_pinecone, the try block: _delete_by_filter_sync(book_id)
\* deletes the vectors of the book, or raises and the error is logged.
DelVectors ==
    /\ del.pc = "VECTORS"
    /\ \/ /\ vectors' = {v \in vectors : v.metadata.book_id # del.book_id}
          /\ del' = [del EXCEPT !.pc = "LEDGER", !.steps = Append(@, "vectors")]
       \/ /\ del' = [del EXCEPT !.pc = "LEDGER", !.vector_error = TRUE,
                                !.steps = Append(@, "vectors")]
          /\ UNCHANGED vectors
    /\ UNCHANGED <<reqs, ledger, index, books, book_seq, hf, ups, rt, ck, rq, ub>>

\* delete(Chunk).where(Chunk.book_id == book_id) and the commit; when the
\* database raises, the route logs the error and goes on.
DelLedger ==
    /\ del.pc = "LEDGER"
    /\ \/ /\ ledger' = {row \in ledger : row.book_id # del.book_id}
          /\ del' = [del EXCEPT !.pc = "BOOK", !.steps = Append(@, "ledger")]
       \/ /\ del' = [del EXCEPT !.pc = "BOOK", !.ledger_error = TRUE,
                                !.steps = Append(@, "ledger")]
          /\ UNCHANGED ledger
    /\ UNCHANGED <<reqs, index, vectors, books, book_seq, hf, ups, rt, ck, rq, ub>>

\* db.delete(book) and the commit: the loaded row is deleted by its id.
DelBook ==
    /\ del.pc = "BOOK"
    /\ books' = {row \in books : row.id # del.book.row.id}
    /\ del' = [del EXCEPT !.pc = "DONE", !.steps = Append(@, "book")]
    /\ UNCHANGED <<reqs, ledger, index, vectors, book_seq, hf, ups, rt, ck, rq, ub>>

\* int(x) of a JSON value (an integer, a string of digits, another string):
\* [ok, v]; ok = FALSE when it raises.
PyInt(x) ==
    IF x.json \in {"int", "numstr"} THEN [ok |-> TRUE, v |-> x.v]
    ELSE [ok |-> FALSE, v |-> 0]

\* The JSON bodies of update_book: the keys given, and the values of title,
\* of bool(is_active) and of inserted_chunks (those of absent keys are not
\* read).
UpdateBodies ==
    LET body(keys, title, is_active, inserted_chunks) ==
            [keys |-> keys, title |-> title, is_active |-> is_active,
             inserted_chunks |-> inserted_chunks]
    IN  {body({}, "None", FALSE, [json |-> "badstr"]),
         body({"inserted_chunks"}, "None", FALSE, [json |-> "int", v |-> 0]),
         body({"inserted_chunks"}, "None", FALSE, [json |-> "int", v |-> MaxGauge]),
         body({"inserted_chunks"}, "None", FALSE, [json |-> "badstr"]),
         body({"title", "is_active"}, "t", FALSE, [json |-> "badstr"]),
         body({"title", "is_active", "inserted_chunks"}, "t", TRUE,
              [json |-> "numstr", v |-> MaxGauge])}

\* The three assignments to the loaded book: a key that is absent leaves the
\* attribute alone, and so does an inserted_chunks that int() refuses.
edited(row, data) ==
    [row EXCEPT
     !.title = IF "title" \in data.keys THEN data.title ELSE @,
     !.is_active = IF "is_active" \in data.keys THEN data.is_active ELSE @,
     !.inserted_chunks =
         IF "inserted_chunks" \in data.keys /\ PyInt(data.inserted_chunks).ok
         THEN PyInt(data.inserted_chunks).v ELSE @]

\* The route update_book: the book row is selected; 404 when there is none.
UbReceive ==
    /\ ub.pc = "idle"
    /\ \E b \in BookIds, data \in UpdateBodies :
          ub' = IF select_book(b).found
                THEN [ub EXCEPT !.pc = "LOADED", !.book_id = b, !.data = data,
                                !.book = select_book(b)]
                ELSE [ub EXCEPT !.pc = "NOT_FOUND", !.book_id = b, !.data = data,
                                !.status = 404]
    /\ UNCHANGED <<reqs, ledger, index, vectors, books, book_seq, hf, ups, del, rt, ck, rq>>

\* The assignments and db.commit(): the flush sends an UPDATE of the columns
\* whose value differs from the loaded one, by the id of the loaded row, and
\* raises StaleDataError when the row is gone; nothing is sent when no value
\* differs.
UbCommit ==
    /\ ub.pc = "LOADED"
    /\ LET old == ub.book.row
           new == edited(old, ub.data)
       IN  IF new = old
           THEN /\ ub' = [ub EXCEPT !.pc = "COMMITTED"]
                /\ UNCHANGED books
           ELSE IF \E b \in books : b.id = old.id
           THEN /\ books' =
                    {IF b.id = old.id
                     THEN [b EXCEPT
                           !.title = IF new.title # old.title THEN new.title ELSE @,
                           !.is_active = IF new.is_active # old.is_active
                                         THEN new.is_active ELSE @,
                           !.inserted_chunks =
                               IF new.inserted_chunks # old.inserted_chunks
                               THEN new.inserted_chunks ELSE @]
                     ELSE b : b \in books}
                /\ ub' = [ub EXCEPT !.pc = "COMMITTED", !.book.row = new]
           ELSE /\ ub' = [ub EXCEPT !.pc = "FAILED", !.status = 500]
                /\ UNCHANGED books
    /\ UNCHANGED <<reqs, ledger, index, vectors, book_seq, hf, ups, del, rt, ck, rq>>

\* db.refresh(book) and the response, which holds the row as it was read;
\* the session raises InvalidRequestError when the row is gone.
UbRefresh ==
    /\ ub.pc = "COMMITTED"
    /\ ub' = IF \E b \in books : b.id = ub.book.row.id
             THEN [ub EXCEPT !.pc = "DONE", !.status = 200,
                             !.book.row = CHOOSE b \in books : b.id = ub.book.row.id]
             ELSE [ub EXCEPT !.pc = "FAILED", !.status = 500]
    /\ UNCHANGED <<reqs, ledger, index, vectors, books, book_seq, hf, ups, del, rt, ck, rq>>

\* The deletion next to ingests of one two-page PDF.
SpecDelete ==
    Init /\ [][\/ IngestWith({[pdf |-> PdfAB, chapters |-> FirstPage]}, IngestProviders)
               \/ DelReceive \/ DelVectors \/ DelLedger \/ DelBook]_vars

\* The three routes that write table books, next to one another: ingests of
\* one two-page PDF, a deletion and an update.
SpecBooks ==
    Init /\ [][\/ IngestWith({[pdf |-> PdfAB, chapters |-> FirstPage]}, IngestProviders)
               \/ DelReceive \/ DelVectors \/ DelLedger \/ DelBook
               \/ UbReceive \/ UbCommit \/ UbRefresh]_vars

\* Request 1 has read a PDF of BATCH + 1 pages for book "A", page k being
\* the one-character text k, and has prepared its chunks, one per page: its
\* upsert takes two calls of the vector store.
BatchesInit ==
    /\ reqs = [r \in Reqs |->
                 IF r = 1
                 THEN [IdleReq EXCEPT
                          !.pc = "CHUNKED", !.book_id = "A",
                          !.pdf_bytes = [k \in 1..(BATCH + 1) |-> <<k>>],
                          !.prepared = [k \in 1..(BATCH + 1) |->
                              page_records(1, "A", NoChapters, k, <<k>>, k - 1)[1]],
                          !.steps = <<"chunk">>]
                 ELSE IdleReq]
    /\ ledger = {} /\ vectors = {} /\ books = {} /\ book_seq = 1
    /\ index = [exists |-> FALSE, dim |-> 0]
    /\ hf = HfIdle /\ OpsIdle

\* The ingest of that PDF goes on next to the other ingests and a deletion,
\* which run between the two calls of its upsert.
SpecBatches ==
    BatchesInit /\ [][\/ IngestWith(Uploads, IngestProviders)
                      \/ DelReceive \/ DelVectors \/ DelLedger \/ DelBook]_vars

(* ------------------------------ retrieval ----------------------------- *)

\* What prepare_chunks_from_pdf_sync makes of a PDF of one page holding one
\* token of WideToken characters: chunk_text gives the token back as the
\* only chunk of the page.
PreparedWide(req, book_id) ==
    LET text == [k \in 1..WideToken |-> 1]
    IN  << [chunk_id     |-> <<req, 1>>,
            book_id      |-> book_id,
            chapter_name |-> "full",
            page         |-> 1,
            chunk_index  |-> 0,
            text         |-> text,
            chunk_hash   |-> compute_hash(text)] >>

\* What an ingest of the prepared chunks writes when it succeeds.
IngestedVectors(book_id, prepared) ==
    LET embeddings == _hf_request_embeddings_sync(Texts(prepared), "array2d").value
    IN  IndexUpsert({}, Upserts(book_id, prepared, embeddings))

IngestedRows(book_id, prepared) ==
    LET rows == ChunkRows(book_id, prepared)
    IN  {rows[k] : k \in 1..Len(rows)}

\* The stores a retrieval may find: for each of two books, nothing, the
\* vectors and ledger rows of a completed ingest, or the vectors alone (the
\* ledger write was refused, or a deletion whose vector store call raised
\* removed the rows and left the vectors).
BookStates == {"absent", "ingested", "vectors-only"}

StoreOf(a, b) ==
    LET prepA == prepare_chunks_from_pdf_sync(1, PdfAB, "A", FirstPage)
        prepB == PreparedWide(2, "B")
    IN  [vectors |-> (IF a = "absent" THEN {} ELSE IngestedVectors("A", prepA))
                     \cup (IF b = "absent" THEN {} ELSE IngestedVectors("B", prepB)),
         ledger |->  (IF a = "ingested" THEN IngestedRows("A", prepA) ELSE {})
                     \cup (IF b = "ingested" THEN IngestedRows("B", prepB) ELSE {})]

RetrieveInit ==
    /\ reqs = [r \in Reqs |-> IdleReq]
    /\ books = {} /\ book_seq = 1
    /\ hf = HfIdle
    /\ ups = UpIdle /\ del = DelIdle /\ ck = CkIdle /\ rq = RqIdle /\ ub = UbIdle
    /\ rt = RtIdle
    /\ \E a, b \in BookStates :
          /\ vectors = StoreOf(a, b).vectors
          /\ ledger = StoreOf(a, b).ledger
          /\ index = [exists |-> TRUE, dim |-> 2]

\* Values of scope_chapter: None, a string, or a list of strings.
PyNone == [kind |-> "none"]
ChapterStr(name) == [kind |-> "str", value |-> name]
ChapterList(names) == [kind |-> "list", value |-> names]

ScopeChapters ==
    {PyNone, ChapterStr("ch1"), ChapterStr("zz"), ChapterStr(""),
     ChapterList(<<"zz", "full">>), ChapterList(<<"zz">>), ChapterList(<<>>)}

\* Python's truth value of scope_chapter.
Truthy(x) ==
    CASE x.kind = "none" -> FALSE
      [] x.kind = "str"  -> x.value # ""
      [] x.kind = "list" -> x.value # <<>>

\* filt = {"book_id": {"$eq": scope_book_id}}, plus the chapter_name clause.
NoFilter == [kind |-> "none"]
BuildFilter(scope_book_id, scope_chapter) ==
    [kind |-> "filter",
     book_id |-> scope_book_id,
     chapter_name |->
        IF ~Truthy(scope_chapter) THEN [op |-> "any"]
        ELSE IF scope_chapter.kind = "list"
             THEN [op |-> "$in", names |-> {scope_chapter.value[k] :
                                              k \in 1..Len(scope_chapter.value)}]
             ELSE [op |-> "$eq", names |-> {scope_chapter.value}]]

\* Whether a record of the index passes a metadata filter.
Passes(v, filt) ==
    \/ filt.kind = "none"
    \/ /\ v.metadata.book_id = filt.book_id
       /\ \/ filt.chapter_name.op = "any"
          \/ v.metadata.chapter_name \in filt.chapter_name.names

\* The list of matches of a query response that ranks the records in the
\* given order, the best first: the scores fall along the list.
MatchesOf(ranked) ==
    [k \in 1..Len(ranked) |->
        [id |-> ranked[k].id, score |-> Len(ranked) - k + 1,
         metadata |-> ranked[k].metadata]]

\* The answers index.query may give: top_k of the records that pass the
\* filter (all of them when there are fewer), whichever the scores favour
\* and in whichever order the scores rank them. The list is kept as the
\* response has it.
QueryAnswers(filt, top_k) ==
    LET passing == {v \in vectors : Passes(v, filt)}
        size == Min(top_k, Cardinality(passing))
    IN  {MatchesOf(ranked) :
            ranked \in {r \in [1..size -> passing] :
                           \A i, j \in 1..size : i # j => r[i] # r[j]}}

\* The call arrives and the query text is embedded; an embedder that raises
\* ends the call.
RtEmbed ==
    /\ rt.pc = "idle"
    /\ \E b \in BookIds, ch \in ScopeChapters, top_k \in 1..MaxTopK,
          prov \in IngestProviders :
          LET q_embs == _hf_request_embeddings_sync(<< <<1>> >>, prov)
          IN  rt' = [rt EXCEPT
                     !.scope_book_id = b, !.scope_chapter = ch, !.top_k = top_k,
                     !.pc = IF q_embs.raised THEN "raised" ELSE "SCOPED",
                     !.error = IF q_embs.raised THEN "embed" ELSE @]
    /\ UNCHANGED <<reqs, ledger, index, vectors, books, book_seq, hf, ups, del, ck, rq, ub>>

\* Variant: no second query when the scoped one matched nothing.
RtScopedQueryOnly ==
    /\ rt.pc = "SCOPED"
    /\ LET filt == BuildFilter(rt.scope_book_id, rt.scope_chapter)
       IN  \/ \E matches \in QueryAnswers(filt, rt.top_k) :
                 rt' = [rt EXCEPT
                        !.queries = Append(@, [filt |-> filt, n |-> Len(matches)]),
                        !.matches = matches,
                        !.pc = IF matches = <<>> THEN "returned" ELSE "HYDRATE"]
           \/ rt' = [rt EXCEPT !.pc = "raised", !.error = "index",
                               !.queries = Append(@, [filt |-> filt, n |-> 0])]
    /\ UNCHANGED <<reqs, ledger, index, vectors, books, book_seq, hf, ups, del, ck, rq, ub>>

\* matches = _query_index_sync(qvec, top_k, filt)
RtScopedQuery ==
    /\ rt.pc = "SCOPED"
    /\ LET filt == BuildFilter(rt.scope_book_id, rt.scope_chapter)
       IN  \/ \E matches \in QueryAnswers(filt, rt.top_k) :
                 rt' = [rt EXCEPT
                        !.queries = Append(@, [filt |-> filt, n |-> Len(matches)]),
                        !.matches = matches,
                        !.pc = IF matches = <<>> THEN "UNFILTERED" ELSE "HYDRATE"]
           \/ rt' = [rt EXCEPT !.pc = "raised", !.error = "index",
                               !.queries = Append(@, [filt |-> filt, n |-> 0])]
    /\ UNCHANGED <<reqs, ledger, index, vectors, books, book_seq, hf, ups, del, ck, rq, ub>>

\* matches = _query_index_sync(qvec, top_k, None); return [] when empty.
RtUnfilteredQuery ==
    /\ rt.pc = "UNFILTERED"
    /\ \/ \E matches \in QueryAnswers(NoFilter, rt.top_k) :
             rt' = [rt EXCEPT
                    !.queries = Append(@, [filt |-> NoFilter, n |-> Len(matches)]),
                    !.matches = matches,
                    !.pc = IF matches = <<>> THEN "returned" ELSE "HYDRATE"]
       \/ rt' = [rt EXCEPT !.pc = "raised", !.error = "index",
                           !.queries = Append(@, [filt |-> NoFilter, n |-> 0])]
    /\ UNCHANGED <<reqs, ledger, index, vectors, books, book_seq, hf, ups, del, ck, rq, ub>>

\* mapping = {row.chunk_id: row.full_text for row in rows}, rows being the
\* ledger rows whose chunk_id is one of chunk_ids.
Mapping(rows, chunk_ids) ==
    {<<row.chunk_id, row.full_text>> : row \in {x \in rows : x.chunk_id \in chunk_ids}}

\* mapping.get(cid, default)
MappingGet(mapping, cid, default) ==
    IF \E e \in mapping : e[1] = cid
    THEN (CHOOSE e \in mapping : e[1] = cid)[2]
    ELSE default

\* Variant: the matches that have no ledger row are left out.
HydrateDropsMissing(matches, mapping) ==
    LET kept == SelectSeq(matches, LAMBDA m : \E e \in mapping : e[1] = m.id)
    IN  [k \in 1..Len(kept) |->
            [chunk_id |-> kept[k].id, score |-> kept[k].score,
             metadata |-> kept[k].metadata,
             full_text |-> MappingGet(mapping, kept[k].id, <<>>)]]

\* Variant: the results follow the ledger join, the matches that have a
\* ledger row first.
HydrateJoinOrder(matches, mapping) ==
    LET joined == SelectSeq(matches, LAMBDA m : \E e \in mapping : e[1] = m.id)
        others == SelectSeq(matches, LAMBDA m : ~\E e \in mapping : e[1] = m.id)
        ordered == joined \o others
    IN  [k \in 1..Len(ordered) |->
            [chunk_id |-> ordered[k].id, score |-> ordered[k].score,
             metadata |-> ordered[k].metadata,
             full_text |-> MappingGet(mapping, ordered[k].id,
                                      ordered[k].metadata.text_preview)]]

\* The results loop: the ledger's full_text, else the metadata's preview.
Hydrate(matches, mapping) ==
    [k \in 1..Len(matches) |->
        [chunk_id |-> matches[k].id, score |-> matches[k].score,
         metadata |-> matches[k].metadata,
         full_text |-> MappingGet(mapping, matches[k].id,
                                  matches[k].metadata.text_preview)]]

\* The ledger read of the matched ids and the results loop; the read may
\* raise.
RtHydrate ==
    /\ rt.pc = "HYDRATE"
    /\ \/ LET chunk_ids == {rt.matches[k].id : k \in 1..Len(rt.matches)}
          IN  rt' = [rt EXCEPT !.pc = "returned",
                               !.results = Hydrate(rt.matches, Mapping(ledger, chunk_ids))]
       \/ rt' = [rt EXCEPT !.pc = "raised", !.error = "database"]
    /\ UNCHANGED <<reqs, ledger, index, vectors, books, book_seq, hf, ups, del, ck, rq, ub>>

SpecRetrieve ==
    RetrieveInit /\ [][RtEmbed \/ RtScopedQuery \/ RtUnfilteredQuery \/ RtHydrate]_vars

(* ----------------------- the chunker, pass by pass -------------------- *)

\* Python's s[i:j] for any integers i and j: a negative index counts from
\* the end, and both are clipped to the sequence.
PyIndex(s, x) == IF x < 0 THEN (IF Len(s) + x < 0 THEN 0 ELSE Len(s) + x)
                 ELSE Min(x, Len(s))
PySlice(s, i, j) == SubSeq(s, PyIndex(s, i) + 1, PyIndex(s, j))

\* A text of n one-character tokens, with blanks around and between them.
TokenText(n) == <<0>> \o join([k \in 1..n |-> <<k>>]) \o <<0, 0>>

ChunkInit ==
    /\ IngestInit
    /\ hf = HfIdle
    /\ ups = UpIdle /\ del = DelIdle /\ rt = RtIdle /\ rq = RqIdle /\ ub = UbIdle
    /\ \E n \in 0..MaxTokens, chunk_size \in 1..MaxChunkSize,
          overlap \in 0..(MaxChunkSize + 1) :
          ck = [CkIdle EXCEPT !.pc = "called", !.text = TokenText(n),
                              !.chunk_size = chunk_size, !.overlap = overlap]

\* tokens = text.split(); return [] when there is none.
CkSplit ==
    /\ ck.pc = "called"
    /\ ck' = [ck EXCEPT !.tokens = split(ck.text),
                        !.pc = IF split(ck.text) = <<>> THEN "done" ELSE "loop"]
    /\ UNCHANGED <<reqs, ledger, index, vectors, books, book_seq, hf, ups, del, rt, rq, ub>>

\* Variant: the window start advances by the whole chunk size.
CkPassNoOverlap ==
    /\ ck.pc = "loop"
    /\ ck.i < Len(ck.tokens)
    /\ Len(ck.chunks) < MaxChunks
    /\ ck' = [ck EXCEPT
              !.chunks = Append(@, join(PySlice(ck.tokens, ck.i, ck.i + ck.chunk_size))),
              !.i = @ + ck.chunk_size]
    /\ UNCHANGED <<reqs, ledger, index, vectors, books, book_seq, hf, ups, del, rt, rq, ub>>

\* One pass of the while loop.
CkPass ==
    /\ ck.pc = "loop"
    /\ ck.i < Len(ck.tokens)
    /\ Len(ck.chunks) < MaxChunks
    /\ ck' = [ck EXCEPT
              !.chunks = Append(@, join(PySlice(ck.tokens, ck.i, ck.i + ck.chunk_size))),
              !.i = @ + ck.chunk_size - ck.overlap]
    /\ UNCHANGED <<reqs, ledger, index, vectors, books, book_seq, hf, ups, del, rt, rq, ub>>

\* The loop condition fails: return chunks.
CkReturn ==
    /\ ck.pc = "loop"
    /\ ck.i >= Len(ck.tokens)
    /\ ck' = [ck EXCEPT !.pc = "done"]
    /\ UNCHANGED <<reqs, ledger, index, vectors, books, book_seq, hf, ups, del, rt, rq, ub>>

SpecChunk == ChunkInit /\ [][CkSplit \/ CkPass \/ CkReturn]_vars

(* ------------------- the route ingest_book_endpoint ------------------- *)

\* The values a chapter's start_page or end_page has in the JSON.
JsonPages ==
    {[json |-> "int", v |-> n] : n \in -1..MaxPageNo}
    \cup {[json |-> "numstr", v |-> MaxPageNo], [json |-> "badstr"]}

\* The k-th element of a JSON list: something that is no dict, a dict that
\* lacks a key, or a dict with the three keys.
JsonItems(k) ==
    {[dict |-> FALSE], [dict |-> TRUE, keys |-> FALSE]}
    \cup {[dict |-> TRUE, keys |-> TRUE, name |-> <<"ch1", "ch2", "ch3", "ch4">>[k],
           start_page |-> a, end_page |-> b] : a, b \in JsonPages}

RECURSIVE JsonLists(_)
JsonLists(n) ==
    IF n = 0 THEN {<<>>}
    ELSE LET shorter == JsonLists(n - 1)
         IN  shorter \cup {Append(l, it) : l \in {x \in shorter : Len(x) = n - 1},
                                           it \in JsonItems(n)}

\* The form field chapters_json: absent, empty, not JSON, JSON that is no
\* list, or a JSON list.
JsonForms ==
    {[form |-> "invalid"], [form |-> "value", list |-> FALSE]}
    \cup {[form |-> "value", list |-> TRUE, items |-> l] : l \in JsonLists(MaxChapters)}

\* The readable uploads: a PDF of the given pages.
Readable(pages) == [readable |-> TRUE, pages |-> pages]

\* The page fields of the single-chapter form.
FormPages == {NotGiven} \cup {[given |-> TRUE, v |-> n] : n \in -1..(MaxPageNo + 1)}

\* The requests: with chapters_json, and without it (absent or empty); the
\* chapter_name "" stands for an absent or empty field.
RouteInit ==
    /\ IngestInit
    /\ hf = HfIdle
    /\ ups = UpIdle /\ del = DelIdle /\ rt = RtIdle /\ ck = CkIdle /\ ub = UbIdle
    /\ \/ \E j \in JsonForms, c \in {Readable(PdfAB), Unreadable}, nm \in {"", "ch"} :
             rq = [RqIdle EXCEPT !.pc = "received", !.is_pdf = TRUE, !.content = c,
                                 !.chapters_json = j, !.chapter_name = nm,
                                 !.book_id = "A"]
       \/ \E j \in {[form |-> "none"], [form |-> "empty"]},
             c \in {Readable(PdfAB), Readable(<<>>), Unreadable}, nm \in {"", "ch"},
             sp \in FormPages, ep \in FormPages, pdf \in BOOLEAN, b \in {"", "A"} :
             rq = [RqIdle EXCEPT !.pc = "received", !.is_pdf = pdf, !.content = c,
                                 !.chapters_json = j, !.chapter_name = nm,
                                 !.start_page = sp, !.end_page = ep, !.book_id = b]

Rejected(detail) == [ok |-> FALSE, detail |-> detail, chapters |-> <<>>]
Accepted(chapters) == [ok |-> TRUE, detail |-> "", chapters |-> chapters]

\* The loop over the parsed JSON list: the first element that is refused
\* ends the request, else every element is appended to cleaned.
RECURSIVE clean_from(_, _, _)
clean_from(parsed, k, cleaned) ==
    IF k > Len(parsed) THEN Accepted(cleaned)
    ELSE LET ch == parsed[k]
         IN  IF ~ch.dict \/ ~ch.keys
             THEN Rejected("Each chapter must include 'name','start_page','end_page'")
             ELSE IF ~PyInt(ch.start_page).ok \/ ~PyInt(ch.end_page).ok
             THEN Rejected("start_page and end_page must be integers")
             ELSE clean_from(parsed, k + 1,
                      Append(cleaned, [name |-> ch.name,
                                       start_page |-> PyInt(ch.start_page).v,
                                       end_page |-> PyInt(ch.end_page).v]))

\* The branch "if chapters_json".
chapters_from_json(j) ==
    IF j.form = "invalid"
    THEN Rejected("Invalid chapters_json. Must be JSON list of {name,start_page,end_page}")
    ELSE IF ~j.list THEN Rejected("chapters_json must be a JSON list")
    ELSE clean_from(j.items, 1, <<>>)

\* The branch "elif chapter_name"; total_pages = 0 stands for a PDF without
\* pages and for one that cannot be read (None), both of which are falsy.
chapters_from_name(content, chapter_name, start_page, end_page) ==
    LET total_pages == IF content.readable THEN Len(content.pages) ELSE 0
        s0 == IF start_page.given THEN start_page.v ELSE 1
        e0 == IF end_page.given THEN end_page.v
              ELSE IF total_pages # 0 THEN total_pages ELSE s0
        s == IF total_pages # 0 /\ s0 < 1 THEN 1 ELSE s0
        e == IF total_pages # 0 /\ e0 > total_pages THEN total_pages ELSE e0
    IN  IF e < s THEN Rejected("end_page must be >= start_page")
        ELSE Accepted(<<[name |-> chapter_name, start_page |-> s, end_page |-> e]>>)

\* The filename check.
RqCheckFile ==
    /\ rq.pc = "received"
    /\ rq' = IF rq.is_pdf THEN [rq EXCEPT !.pc = "read"]
             ELSE [rq EXCEPT !.pc = "rejected", !.status = 400,
                             !.detail = "Only PDF supported"]
    /\ UNCHANGED <<reqs, ledger, index, vectors, books, book_seq, hf, ups, del, rt, ck, ub>>

\* The chapters handed to the ingest, or the 400 response; an absent list
\* (None) is the empty list, which prepare_chunks_from_pdf_sync treats alike.
RqChapters ==
    /\ rq.pc = "read"
    /\ LET out == IF rq.chapters_json.form \notin {"none", "empty"}
                  THEN chapters_from_json(rq.chapters_json)
                  ELSE IF rq.chapter_name # ""
                  THEN chapters_from_name(rq.content, rq.chapter_name,
                                          rq.start_page, rq.end_page)
                  ELSE Accepted(<<>>)
       IN  rq' = IF out.ok
                 THEN [rq EXCEPT !.pc = "ingest", !.chapters = out.chapters]
                 ELSE [rq EXCEPT !.pc = "rejected", !.status = 400,
                                 !.detail = out.detail]
    /\ UNCHANGED <<reqs, ledger, index, vectors, books, book_seq, hf, ups, del, rt, ck, ub>>

\* The call of ingest_book_and_record with book_id or None, the chapters and
\* the bytes read from the upload; an absent or empty book_id is replaced
\* there by a new uuid4. The ingest is run by request 1.
RqIngest ==
    /\ rq.pc = "ingest"
    /\ reqs[1].pc = "IDLE"
    /\ rq' = [rq EXCEPT !.pc = "ingesting"]
    /\ reqs' = [reqs EXCEPT ![1].pc = "RECEIVED",
                    ![1].book_id = IF rq.book_id = "" THEN "uuid4" ELSE rq.book_id,
                    ![1].pdf_bytes = rq.content.pages,
                    ![1].chapters = rq.chapters]
    /\ UNCHANGED <<ledger, index, vectors, books, book_seq, hf, ups, del, rt, ck, ub>>

\* The first await of the ingest, prepare_chunks_from_pdf_sync on the bytes
\* of the upload: it raises when they cannot be read.
RqPrepare ==
    /\ rq.pc = "ingesting"
    /\ IF rq.content.readable THEN Chunk(1) ELSE ChunkRaises(1)

\* The database fails under one of the awaits of the ingest that read or
\* write it, other than the ledger write: the select of the hashes, the
\* select of the book, its commit, with nothing written, or its refresh.
\* The call raises and the ingest ends.
RqDatabaseRaises ==
    /\ rq.pc = "ingesting"
    /\ reqs[1].pc \in {"CHUNKED", "DEDUPED", "PERSISTED", "SELECTED", "COMMITTED"}
    /\ reqs[1].pc = "DEDUPED" => reqs[1].res.returned
    /\ reqs' = IF reqs[1].pc = "COMMITTED"
               THEN [reqs EXCEPT ![1].pc = "FAILED", ![1].failure = "database"]
               ELSE Fail(1, IF reqs[1].res.returned THEN "record" ELSE "dedup",
                         "database")
    /\ UNCHANGED <<ledger, index, vectors, books, book_seq, hf, ops>>

\* The response: the result of ingest_book_and_record with status 200, or,
\* for an exception of any of its steps, status 500 and a detail that ends
\* with the text of the exception, for which the model has the name of the
\* failure.
RqRespond ==
    /\ rq.pc = "ingesting"
    /\ reqs[1].pc \in {"DONE", "FAILED"}
    /\ rq' = IF reqs[1].pc = "DONE"
             THEN [rq EXCEPT !.pc = "done", !.status = 200,
                             !.res = [book_id |-> reqs[1].book_id,
                                      inserted_chunks |-> reqs[1].res.inserted,
                                      skipped_chunks |-> reqs[1].res.skipped]]
             ELSE [rq EXCEPT !.pc = "failed", !.status = 500,
                             !.detail = "Failed to ingest: " \o reqs[1].failure]
    /\ UNCHANGED <<reqs, ledger, index, vectors, books, book_seq, hf, ups, del, rt, ck, ub>>

\* The route, with the ingest it calls run step by step.
SpecRoute ==
    RouteInit /\ [][\/ RqCheckFile \/ RqChapters \/ RqIngest \/ RqPrepare
                    \/ \E r \in Reqs :
                          \/ Dedup(r)
                          \/ EmbedWith(r, IngestProviders)
                          \/ EnsureHasIndex(r)
                          \/ EnsureCreate(r)
                          \/ Upsert(r)
                          \/ Persist(r)
                          \/ SelectBook(r)
                          \/ CommitBook(r)
                          \/ RefreshBook(r)
                    \/ RqDatabaseRaises \/ RqRespond]_vars

(* ------------------------------ claims -------------------------------- *)

\* Ids are <<request, position>>: what request r wrote to either store.
RowsOf(r) == {row \in ledger : row.chunk_id[1] = r}
VectorsOf(r) == {v \in vectors : v.id[1] = r}
StepsOf(r) == {reqs[r].steps[k] : k \in 1..Len(reqs[r].steps)}
RowsOfBook(b) == {row \in ledger : row.book_id = b}

\* r2 repeats r1: same book_id, same PDF bytes, started after r1 was done.
Repeats(r2, r1) ==
    /\ r1 \in reqs[r2].doneBefore
    /\ reqs[r1].book_id = reqs[r2].book_id
    /\ reqs[r1].pdf_bytes = reqs[r2].pdf_bytes

\* C1: an ingest that repeats a completed ingest of the same book_id with the
\* same PDF bytes changes neither the ledger nor the index in any of its
\* steps, never fails, returns from the dedup step, and returns inserted = 0
\* with skipped = the number of chunk candidates.
C1_ReingestIsNoOp ==
    [][\A r1, r2 \in Reqs :
          (Repeats(r2, r1)' /\ reqs'[r2] # reqs[r2]) =>
              /\ ledger' = ledger
              /\ vectors' = vectors
              /\ reqs'[r2].pc # "FAILED"
              /\ reqs'[r2].pc = "DEDUPED" => reqs'[r2].res.returned
              /\ reqs'[r2].res.returned =>
                    /\ reqs'[r2].res.inserted = 0
                    /\ reqs'[r2].res.skipped = Len(reqs'[r2].prepared)]_vars

C1_Witness ==
    \E r1, r2 \in Reqs :
        /\ Repeats(r2, r1)
        /\ reqs[r2].pc = "DONE"
        /\ reqs[r2].res.skipped = 2
        /\ reqs[r1].res.inserted = 2

\* No request other than r is between its arrival and its end.
Alone(r) == \A q \in Reqs \ {r} : reqs[q].pc \in {"IDLE", "DONE", "FAILED"}

\* C2: when an ingest completes (here: with no other request in flight), the
\* book row's inserted_chunks equals the number of ledger rows of that
\* book_id.
C2_GaugeEqualsLedgerCount ==
    [][\A r \in Reqs :
          (Alone(r) /\ reqs[r].pc # "DONE" /\ reqs'[r].pc = "DONE") =>
              \E b \in books' :
                  /\ b.book_id = reqs'[r].book_id
                  /\ b.inserted_chunks =
                        Cardinality({row \in ledger' : row.book_id = b.book_id})]_vars

\* C3: the ledger never holds two rows with the same (book_id, chunk_hash).
C3_LedgerUnique ==
    \A x, y \in ledger :
        (x.book_id = y.book_id /\ x.chunk_hash = y.chunk_hash) => x = y

\* Two overlapping ingests of one book raced for the same hash: the one that
\* committed second was refused.
C3_Witness ==
    \E r1, r2 \in Reqs :
        /\ r1 # r2
        /\ reqs[r1].book_id = reqs[r2].book_id
        /\ reqs[r2].pc = "FAILED" /\ reqs[r2].failure = "integrity"
        /\ "persist" \in StepsOf(r2)
        /\ \E row \in RowsOf(r1) : \E k \in 1..Len(reqs[r2].to_index) :
              row.chunk_hash = reqs[r2].to_index[k].chunk_hash

\* C4: two candidates of one ingest with the same stripped text have the same
\* hash, the ledger write of that ingest is not refused, and once it is
\* written the ledger holds exactly one row for that hash.
C4_TwinsPersistOnce ==
    \A r \in Reqs : \A j, k \in 1..Len(reqs[r].prepared) :
        (j # k /\ strip(reqs[r].prepared[j].text) = strip(reqs[r].prepared[k].text)) =>
            /\ reqs[r].prepared[j].chunk_hash = reqs[r].prepared[k].chunk_hash
            /\ ~(reqs[r].pc = "FAILED" /\ reqs[r].failure = "integrity"
                 /\ "persist" \in StepsOf(r))
            /\ reqs[r].pc \in {"PERSISTED", "SELECTED", "COMMITTED", "DONE"} =>
                  Cardinality({row \in RowsOfBook(reqs[r].book_id) :
                      row.chunk_hash = reqs[r].prepared[j].chunk_hash}) = 1

\* C5: at the dedup step a candidate is kept for indexing exactly when the
\* ledger holds no row with its hash under the request's own book_id (rows
\* of other books do not count), and skipped counts the others.
C5_DedupPerBook ==
    [][\A r \in Reqs :
          (reqs[r].pc = "CHUNKED" /\ reqs'[r].pc = "DEDUPED") =>
              LET kept == {k \in 1..Len(reqs[r].prepared) :
                              ~\E row \in ledger :
                                  /\ row.book_id = reqs[r].book_id
                                  /\ row.chunk_hash = reqs[r].prepared[k].chunk_hash}
              IN  /\ {reqs'[r].to_index[k].chunk_id :
                         k \in 1..Len(reqs'[r].to_index)}
                       = {reqs[r].prepared[k].chunk_id : k \in kept}
                  /\ reqs'[r].skipped = Len(reqs[r].prepared) - Cardinality(kept)]_vars

\* The same text persisted under both books, the second ingest having
\* skipped nothing although the first book already held the hash.
C5_Witness ==
    \E r1, r2 \in Reqs :
        /\ r1 \in reqs[r2].doneBefore
        /\ reqs[r1].book_id # reqs[r2].book_id
        /\ reqs[r2].pc = "DONE" /\ reqs[r2].skipped = 0
        /\ \E x \in RowsOf(r1), y \in RowsOf(r2) : x.chunk_hash = y.chunk_hash

\* Nothing is left to index: no candidates, or none survived the dedup.
NothingToIndex(r) ==
    /\ "chunk" \in StepsOf(r)
    /\ \/ reqs[r].prepared = <<>>
       \/ "dedup" \in StepsOf(r) /\ reqs[r].to_index = <<>>

\* C6: an ingest with nothing left to index has returned inserted = 0, ran
\* none of embed, ensure_index, upsert and the ledger write, and wrote no
\* vector and no ledger row.
C6_ShortCircuit ==
    \A r \in Reqs :
        NothingToIndex(r) =>
            /\ reqs[r].res.returned /\ reqs[r].res.inserted = 0
            /\ StepsOf(r) \cap {"embed", "ensure", "upsert", "persist"} = {}
            /\ RowsOf(r) = {} /\ VectorsOf(r) = {}

C6_Witness ==
    \E r \in Reqs :
        /\ reqs[r].pc = "DONE"
        /\ reqs[r].prepared # <<>>
        /\ "dedup" \in StepsOf(r) /\ reqs[r].to_index = <<>>

\* C7: a request wrote ledger rows only after its embed, ensure_index and
\* upsert steps all succeeded; one that failed in any of them wrote none.
C7_LedgerWrittenLast ==
    \A r \in Reqs :
        /\ (reqs[r].pc = "FAILED" /\ reqs[r].failure \in {"embed", "ensure", "upsert"})
              => RowsOf(r) = {}
        /\ RowsOf(r) # {} =>
              /\ reqs[r].pc \in {"PERSISTED", "SELECTED", "COMMITTED", "DONE", "FAILED"}
              /\ {"embed", "ensure", "upsert", "persist"} \subseteq StepsOf(r)

\* The second batch of an upsert raised after the first one was written,
\* and another request failed in the embedder.
C7_Witness ==
    \E r, q \in Reqs :
        /\ reqs[r].pc = "FAILED" /\ reqs[r].failure = "upsert"
        /\ reqs[r].j = BATCH /\ Len(reqs[r].to_index) > BATCH
        /\ Cardinality(VectorsOf(r)) = BATCH
        /\ reqs[q].pc = "FAILED" /\ reqs[q].failure = "embed"

StepOrder == <<"chunk", "dedup", "embed", "ensure", "upsert", "persist", "record">>
Rank(step) == CHOOSE k \in 1..Len(StepOrder) : StepOrder[k] = step

\* C8: the steps a request has run are in the order chunk, dedup, embed,
\* ensure_index, upsert, ledger write, each at most once and each right
\* after the step before it; only the closing book record may follow an
\* earlier step (the two early returns).
C8_StepsInOrder ==
    \A r \in Reqs :
        LET st == reqs[r].steps
        IN  /\ st # <<>> => st[1] = "chunk"
            /\ \A k \in 2..Len(st) :
                  /\ Rank(st[k]) > Rank(st[k - 1])
                  /\ st[k] # "record" => Rank(st[k]) = Rank(st[k - 1]) + 1
                  /\ st[k] = "record" => st[k - 1] \in {"chunk", "dedup", "persist"}

C8_Witness ==
    \E r \in Reqs : reqs[r].pc = "DONE" /\ reqs[r].steps = StepOrder

\* The vectors a response of each kind assigns to the texts of a sub-batch:
\* one per text for the kinds that carry one vector per text, the flattened
\* item for "tokens", and for a lone vector the rule of the 1D array (the
\* vector itself for one text, equal rows when its length divides, else the
\* same vector for every text).
Assigned(kind, batch) ==
    LET n == Len(batch)
        m == Len(LoneVector)
    IN  CASE kind = "tokens" -> [k \in 1..n |-> E(batch[k]) \o E(batch[k])]
          [] kind \in {"single1d", "list1d"} ->
                IF n > 1 /\ m % n = 0
                THEN [k \in 1..n |-> SubSeq(LoneVector, (k - 1) * (m \div n) + 1,
                                            k * (m \div n))]
                ELSE [k \in 1..n |-> LoneVector]
          [] kind = "one-in-list" -> [k \in 1..n |-> LoneVector]
          [] OTHER -> [k \in 1..n |-> E(batch[k])]

\* C9: when _hf_request_embeddings_sync returns, the result has one vector
\* per input text, and the vectors of every sub-batch are, in input order,
\* the ones the response accepted for that sub-batch assigns to its texts.
C9_OrderPreserved ==
    hf.pc = "returned" =>
        /\ Len(hf.result) = Len(hf.texts)
        /\ \A j \in 1..Len(hf.accepted) :
              LET start == hf.accepted[j].start
                  batch == Slice(hf.texts, start, start + HF_BATCH_SIZE)
              IN  /\ start = (j - 1) * HF_BATCH_SIZE
                  /\ Slice(hf.result, start, start + HF_BATCH_SIZE)
                        = Assigned(hf.accepted[j].kind, batch)

\* A result across a sub-batch boundary, the first sub-batch resolved by a
\* reshape after a failed attempt, the second being a single text.
C9_Witness ==
    /\ hf.pc = "returned"
    /\ Len(hf.texts) > HF_BATCH_SIZE
    /\ Len(hf.accepted) = 2
    /\ hf.accepted[1].branch = "B-1d-reshape"
    /\ hf.accepted[2].branch = "B-1d-single"
    /\ hf.failures[1] > 0

\* C10: a call whose sub-batches each succeeded, at once or after exactly
\* MAX_RETRIES - 1 failed attempts, returns, with one vector per text; a
\* sub-batch that failed MAX_RETRIES + 1 times in a row makes the call raise,
\* with no output.
C10_RetryBound ==
    /\ ( /\ hf.pc \in {"returned", "raised"}
         /\ Len(hf.accepted) * HF_BATCH_SIZE >= Len(hf.texts)
         /\ \A j \in 1..Len(hf.failures) :
               hf.failures[j] \in {0, HF_MAX_RETRIES - 1} )
       => (hf.pc = "returned" /\ Len(hf.result) = Len(hf.texts))
    /\ hf.attempt = HF_MAX_RETRIES + 1 => (hf.pc = "raised" /\ hf.result = <<>>)

\* Every sub-batch of the run was resolved.
AllResolved == Len(hf.accepted) * HF_BATCH_SIZE >= Len(hf.texts)

\* C11: a failed attempt (exception or unresolved shape) is followed by a
\* request for the same sub-batch, the sub-batches resolved before are not
\* requested again, and no sub-batch is requested more than MAX_RETRIES + 1
\* times: the failure number MAX_RETRIES + 1 ends the call.
C11_RetriesSameSubBatch ==
    [][(hf.pc = "request" /\ hf' # hf) =>
          /\ hf'.texts = hf.texts
          /\ hf'.i >= hf.i
          /\ hf'.attempt = hf.attempt + 1 =>
                /\ hf'.i = hf.i
                /\ hf'.accepted = hf.accepted
                /\ hf'.attempt <= HF_MAX_RETRIES + 1
                /\ (hf'.pc = "raised") = (hf'.attempt = HF_MAX_RETRIES + 1)
          /\ hf'.i > hf.i =>
                /\ hf'.i = hf.i + HF_BATCH_SIZE
                /\ hf'.accepted[Len(hf'.accepted)].start = hf.i
                /\ hf'.calls[Len(hf'.calls)] <= HF_MAX_RETRIES + 1]_vars

\* The second sub-batch was resolved by call number MAX_RETRIES + 1, the
\* first one by its first call.
C11_Witness ==
    /\ hf.pc = "returned"
    /\ hf.calls = <<1, HF_MAX_RETRIES + 1>>

\* C12: when every sub-batch was resolved and the number of accumulated
\* vectors is not the number of texts, the call raises and returns nothing;
\* a returned result is the accumulated list itself, neither cut nor padded.
C12_CountMismatchIsFatal ==
    /\ (hf.pc \in {"returned", "raised"} /\ AllResolved
           /\ Len(hf.all_embeddings) # Len(hf.texts))
          => (hf.pc = "raised" /\ hf.result = <<>>)
    /\ hf.pc = "returned" =>
          (hf.result = hf.all_embeddings /\ Len(hf.result) = Len(hf.texts))

\* Two sub-batches resolved, more vectors accumulated than texts: raised.
C12_Witness ==
    /\ hf.pc = "raised"
    /\ AllResolved
    /\ Len(hf.accepted) = 2
    /\ Len(hf.all_embeddings) > Len(hf.texts)

\* C13: a request whose embedding retries were exhausted, in the first or in
\* a later sub-batch, has failed at the embed step, ran none of the later
\* steps, and wrote no vector and no ledger row.
C13_EmbedFailureWritesNothing ==
    \A r \in Reqs :
        reqs[r].embed_at >= 0 =>
            /\ reqs[r].pc = "FAILED" /\ reqs[r].failure = "embed"
            /\ ~reqs[r].res.returned
            /\ StepsOf(r) \cap {"ensure", "upsert", "persist", "record"} = {}
            /\ RowsOf(r) = {} /\ VectorsOf(r) = {}

\* The retries were exhausted in the second sub-batch, the first one having
\* been embedded.
C13_Witness ==
    \E r \in Reqs :
        /\ reqs[r].pc = "FAILED" /\ reqs[r].failure = "embed"
        /\ reqs[r].embed_at = HF_BATCH_SIZE
        /\ Len(reqs[r].to_index) > HF_BATCH_SIZE

\* C14: the index is created only when it is absent, by the create call of
\* a request and with that request's dimension; once it exists it is never
\* created again and its dimension never changes.
C14_IndexCreatedOnce ==
    [][/\ index.exists => index' = index
       /\ index' # index =>
             \E r \in Reqs :
                 /\ reqs[r].pc = "CREATING" /\ reqs'[r].pc \in {"ENSURED", "FAILED"}
                 /\ index' = [exists |-> TRUE, dim |-> Len(reqs[r].embeddings[1])]]_vars

\* A later ensure call with another dimension found the index and left it.
C14_Witness ==
    \E r \in Reqs :
        /\ reqs[r].pc = "ENSURED" /\ reqs[r].has_index
        /\ index.exists
        /\ index.dim # Len(reqs[r].embeddings[1])

\* The ids of a sequence of records, and the last record of it with an id.
IdsOf(records) == {records[k].id : k \in 1..Len(records)}
LastWithId(records, id) ==
    records[CHOOSE k \in 1..Len(records) :
                /\ records[k].id = id
                /\ \A l \in (k + 1)..Len(records) : records[l].id # id]

\* C15: the batches written so far are, in order, the consecutive slices of
\* 128 records of the input (the last one of a finished run may be
\* shorter), so every record written is in exactly one batch; the index
\* holds one entry per distinct id, the record written last with that id,
\* and what it held before under the other ids.
C15_BatchedUpsert ==
    LET written == Slice(ups.upserts, 0, ups.j)
    IN  ups.pc # "idle" =>
          /\ \A b \in 1..Len(ups.batches) :
                /\ ups.batches[b] = Slice(ups.upserts, (b - 1) * BATCH, b * BATCH)
                /\ Len(ups.batches[b]) <= BATCH
                /\ Len(ups.batches[b]) > 0
          /\ ups.j = Len(ups.batches) * BATCH
          /\ ups.pc = "done" => Len(written) = Len(ups.upserts)
          /\ {v.id : v \in vectors} = IdsOf(written) \cup {v.id : v \in ups.before}
          /\ Cardinality(vectors) = Cardinality({v.id : v \in vectors})
          /\ \A v \in vectors :
                IF v.id \in IdsOf(written) THEN v = LastWithId(written, v.id)
                ELSE v \in ups.before

\* Three batches, the last one shorter, with ids of the first batch written
\* again by the later ones and over an older entry.
C15_Witness ==
    /\ ups.pc = "done"
    /\ Len(ups.batches) = 3
    /\ Len(ups.batches[3]) < BATCH
    /\ ups.before # {}
    /\ Cardinality(vectors) = BATCH + 1
    /\ Len(ups.upserts) > Cardinality(vectors)

\* C16: the deletion attempts the vector deletion first and then always goes
\* on to the ledger, also when the vector store raised; the ledger delete,
\* unless the database itself fails, removes every row of the book; and
\* only that step of a deletion touches the ledger.
C16_LedgerDeletedRegardless ==
    [][del' # del =>
          /\ del.pc = "VECTORS" =>
                /\ del'.pc = "LEDGER"
                /\ ledger' = ledger
                /\ del'.vector_error => vectors' = vectors
          /\ del.pc = "LEDGER" =>
                /\ del.steps = <<"vectors">>
                /\ del'.pc = "BOOK"
                /\ ~del'.ledger_error =>
                      ledger' = {row \in ledger : row.book_id # del.book_id}
          /\ ledger' # ledger => del.pc = "LEDGER"]_vars

\* The vector store raised: the vectors of the book are still there, its
\* ledger rows are gone, and the deletion completed.
C16_Witness ==
    /\ del.pc = "DONE"
    /\ del.vector_error /\ ~del.ledger_error
    /\ del.steps = <<"vectors", "ledger", "book">>
    /\ \E v \in vectors : v.metadata.book_id = del.book_id
    /\ \E r \in Reqs : /\ reqs[r].pc = "DONE" /\ reqs[r].book_id = del.book_id
                       /\ reqs[r].res.inserted > 0
    /\ RowsOfBook(del.book_id) = {}

\* The chapter names of the scope of the call, when a chapter scope is given.
ScopeNames ==
    IF rt.scope_chapter.kind = "list"
    THEN {rt.scope_chapter.value[k] : k \in 1..Len(rt.scope_chapter.value)}
    ELSE IF rt.scope_chapter.kind = "str" THEN {rt.scope_chapter.value} ELSE {}

ChapterGiven ==
    CASE rt.scope_chapter.kind = "str"  -> rt.scope_chapter.value # ""
      [] rt.scope_chapter.kind = "list" -> rt.scope_chapter.value # <<>>
      [] OTHER -> FALSE

\* C17: the first query of a retrieval is the scoped one (the records of the
\* book, and of the chapters of the scope when one is given); a second query
\* is made exactly when the first one matched nothing, it is unfiltered, and
\* there is no third; when it matches nothing either, the retrieval returns
\* the empty list.
C17_FallbackOnce ==
    LET n == Len(rt.queries)
    IN  /\ n <= 2
        /\ n >= 1 =>
              /\ rt.queries[1].filt # NoFilter
              /\ \A v \in vectors :
                    Passes(v, rt.queries[1].filt) <=>
                        /\ v.metadata.book_id = rt.scope_book_id
                        /\ ChapterGiven => v.metadata.chapter_name \in ScopeNames
        /\ n = 2 => (rt.queries[2].filt = NoFilter /\ rt.queries[1].n = 0)
        /\ rt.pc \in {"UNFILTERED", "HYDRATE", "returned"} =>
              /\ n >= 1
              /\ rt.pc # "UNFILTERED" => (n = 2 <=> rt.queries[1].n = 0)
        /\ (rt.pc \in {"HYDRATE", "returned"} /\ rt.queries[n].n = 0) =>
              (rt.pc = "returned" /\ rt.results = <<>>)

\* A chapter scope, nothing matched by either query: the empty list.
C17_Witness ==
    /\ rt.pc = "returned"
    /\ ChapterGiven
    /\ Len(rt.queries) = 2
    /\ rt.queries[1].n = 0 /\ rt.queries[2].n = 0
    /\ rt.results = <<>>

\* C18: a retrieval that found matches returns one result per match, in the
\* order of the matches, with the ledger's full text for an id that has a
\* ledger row and the preview of the index metadata for an id that has none.
C18_HydrationFallsBack ==
    (rt.pc = "returned" /\ rt.matches # <<>>) =>
        /\ Len(rt.results) = Len(rt.matches)
        /\ \A k \in 1..Len(rt.matches) :
              /\ rt.results[k].chunk_id = rt.matches[k].id
              /\ rt.results[k].metadata = rt.matches[k].metadata
              /\ IF \E row \in ledger : row.chunk_id = rt.matches[k].id
                 THEN \E row \in ledger :
                         /\ row.chunk_id = rt.matches[k].id
                         /\ rt.results[k].full_text = row.full_text
                 ELSE rt.results[k].full_text = rt.matches[k].metadata.text_preview

\* One result with the full text of its ledger row, longer than the preview,
\* next to one that has no ledger row and carries its preview.
C18_Witness ==
    /\ rt.pc = "returned"
    /\ \E j, k \in 1..Len(rt.results) :
          /\ Len(rt.results[j].full_text) = WideToken
          /\ Len(rt.results[j].metadata.text_preview) < WideToken
          /\ ~\E row \in ledger : row.chunk_id = rt.results[k].chunk_id
          /\ rt.results[k].full_text = rt.results[k].metadata.text_preview
          /\ rt.results[k].full_text # <<>>

\* C19: for every chunk size and overlap, also an overlap that is not
\* smaller than the chunk size, every pass of the chunking loop moves the
\* window start forward, so the loop ends.
C19_StartAdvances ==
    [][(ck.pc = "loop" /\ ck'.pc = "loop" /\ ck' # ck) => ck'.i > ck.i]_vars

\* C20: with an overlap smaller than the chunk size, a text of at least one
\* and fewer than chunk_size tokens gives exactly one chunk, and no chunk
\* has more than chunk_size tokens.
C20_ShortPageOneChunk ==
    (ck.pc = "done" /\ ck.overlap < ck.chunk_size) =>
        /\ (1 <= Len(ck.tokens) /\ Len(ck.tokens) < ck.chunk_size)
              => Len(ck.chunks) = 1
        /\ \A k \in 1..Len(ck.chunks) : Len(split(ck.chunks[k])) <= ck.chunk_size

Max(a, b) == IF a > b THEN a ELSE b

CeilDiv(a, b) == (a + b - 1) \div b

\* C21: with an overlap O smaller than the chunk size W, a text of N tokens
\* gives ceil(max(N - O, 0) / (W - O)) chunks, and at least one chunk when
\* it has a token.
C21_ChunkCount ==
    (ck.pc = "done" /\ ck.overlap < ck.chunk_size) =>
        Len(ck.chunks) =
            IF Len(ck.tokens) = 0 THEN 0
            ELSE Max(1, CeilDiv(Max(Len(ck.tokens) - ck.overlap, 0),
                                ck.chunk_size - ck.overlap))

\* The tokens of the first step tokens of every chunk but the last, then of
\* the whole last chunk.
RECURSIVE Reassemble(_, _)
Reassemble(chunks, step) ==
    IF chunks = <<>> THEN <<>>
    ELSE IF Len(chunks) = 1 THEN split(chunks[1])
    ELSE SubSeq(split(chunks[1]), 1, step) \o Reassemble(Tail(chunks), step)

\* C22: with an overlap smaller than the chunk size, chunk k is the window
\* of at most chunk_size tokens that starts at k * (chunk_size - overlap),
\* and the non-overlapping heads of the chunks followed by the last chunk
\* are the tokens of the text, in order.
C22_ChunksReassemble ==
    (ck.pc = "done" /\ ck.overlap < ck.chunk_size) =>
        LET step == ck.chunk_size - ck.overlap
        IN  /\ \A k \in 1..Len(ck.chunks) :
                  split(ck.chunks[k]) =
                      SubSeq(ck.tokens, (k - 1) * step + 1,
                             Min((k - 1) * step + ck.chunk_size, Len(ck.tokens)))
            /\ Reassemble(ck.chunks, step) = ck.tokens

\* A text chunked with a positive overlap into three chunks.
C22_Witness ==
    /\ ck.pc = "done"
    /\ 0 < ck.overlap /\ ck.overlap < ck.chunk_size
    /\ Len(ck.chunks) >= 3
    /\ Len(ck.tokens) = MaxTokens

\* The positions of the chapters whose span contains the page.
SpansWith(chapters, page) ==
    {k \in 1..Len(chapters) :
        chapters[k].start_page <= page /\ page <= chapters[k].end_page}

\* C23: every chunk carries the name of the first chapter of the list whose
\* span contains the chunk's page, also when a later span contains it too,
\* and "full" when no span contains it or there is no chapter.
C23_FirstSpanWins ==
    LET prepared == reqs[1].prepared
    IN  /\ \A k \in 1..Len(prepared) :
              LET with == SpansWith(rq.chapters, prepared[k].page)
              IN  prepared[k].chapter_name =
                      IF with = {} THEN "full"
                      ELSE rq.chapters[CHOOSE m \in with : \A n \in with : m <= n].name
        /\ \A row \in ledger :
              \E k \in 1..Len(prepared) :
                  /\ prepared[k].chunk_id = row.chunk_id
                  /\ prepared[k].chapter_name = row.chapter_name
                  /\ prepared[k].page = row.page

\* Chunks of two pages: one page lies in both spans of the list and is
\* labelled with the first, the other lies in none and is labelled "full";
\* the request was answered after the chunks were written to the ledger.
C23_Witness ==
    LET prepared == reqs[1].prepared
    IN  /\ rq.pc = "done"
        /\ Len(rq.chapters) = 2
        /\ Cardinality(ledger) = Len(prepared)
        /\ \E j, k \in 1..Len(prepared) :
              /\ SpansWith(rq.chapters, prepared[j].page) = {1, 2}
              /\ prepared[j].chapter_name = rq.chapters[1].name
              /\ rq.chapters[1].name # rq.chapters[2].name
              /\ SpansWith(rq.chapters, prepared[k].page) = {}
              /\ prepared[k].chapter_name = "full"

\* Whether the chapter specification of the request is malformed, names a
\* page that is not positive, or ends before it starts.
BadSpan(s, e) == s < 1 \/ e < 1 \/ e < s

BadChapters ==
    IF rq.chapters_json.form \in {"invalid", "value"}
    THEN \/ rq.chapters_json.form = "invalid"
         \/ ~rq.chapters_json.list
         \/ \E k \in 1..Len(rq.chapters_json.items) :
               LET ch == rq.chapters_json.items[k]
               IN  \/ ~ch.dict
                   \/ ~ch.keys
                   \/ ~PyInt(ch.start_page).ok
                   \/ ~PyInt(ch.end_page).ok
                   \/ BadSpan(PyInt(ch.start_page).v, PyInt(ch.end_page).v)
    ELSE /\ rq.chapter_name # ""
         /\ \/ rq.start_page.given /\ rq.start_page.v < 1
            \/ rq.end_page.given /\ rq.end_page.v < 1
            \/ /\ rq.start_page.given /\ rq.end_page.given
               /\ rq.end_page.v < rq.start_page.v

\* C26: a request with a malformed chapter specification, a page that is
\* not positive or an end before the start never reaches the ingest: it is
\* answered with status 400 and no chunk is prepared, for the JSON list and
\* for the single-chapter form.
C26_BadChaptersRejected ==
    (rq.is_pdf /\ BadChapters) =>
        /\ rq.pc \in {"received", "read", "rejected"}
        /\ rq.pc = "rejected" => rq.status = 400
        /\ reqs[1].prepared = <<>>

\* The texts of the first 400 tokens of the 500, and of the tokens from the
\* 351st on, joined with single spaces.
ScenarioFirst == join([k \in 1..CHUNK_SIZE |-> <<k>>])
ScenarioSecond ==
    join([k \in 1..(ScenarioTokens - CHUNK_SIZE + CHUNK_OVERLAP) |->
             <<k + CHUNK_SIZE - CHUNK_OVERLAP>>])

\* C24: the ingest of the two-page PDF (500 distinct tokens, then a page
\* without text) with window 400 and overlap 50 under a book_id that has no
\* ledger rows prepares two chunks, both of page 1 (the first 400 tokens,
\* then the tokens from the 351st on) and none of page 2, and returns
\* inserted = 2, skipped = 0.
C24_BlankSecondPage ==
    \A r \in Reqs :
        /\ (reqs[r].pc \notin {"IDLE", "RECEIVED"} /\ reqs[r].failure = "none") =>
              /\ Len(reqs[r].prepared) = 2
              /\ \A k \in 1..2 : reqs[r].prepared[k].page = 1
              /\ reqs[r].prepared[1].text = ScenarioFirst
              /\ reqs[r].prepared[2].text = ScenarioSecond
        /\ (reqs[r].res.returned /\ reqs[r].existing_hashes = {}) =>
              reqs[r].res = Result(2, 0)

\* An ingest of the PDF that found no ledger rows of its book, is done
\* and has returned inserted = 2, skipped = 0; the ledger holds its two rows.
C24_Witness ==
    \E r \in Reqs :
        /\ reqs[r].pc = "DONE"
        /\ reqs[r].pdf_bytes = PdfScenario
        /\ reqs[r].existing_hashes = {}
        /\ reqs[r].res = Result(2, 0)
        /\ Cardinality(RowsOf(r)) = 2

\* The positions of the candidates whose hash is not persisted for the book.
Fresh(prepared, rows, book_id) ==
    {k \in 1..Len(prepared) :
        \A row \in rows : row.book_id = book_id => row.chunk_hash # prepared[k].chunk_hash}

\* C25: the dedup step selects exactly the candidates whose hash is not
\* among the hashes persisted for the book, in the order of the candidate
\* list, and counts as skipped the candidates it did not select.
C25_StableFilter ==
    [][\A r \in Reqs :
          (reqs[r].pc = "CHUNKED" /\ reqs'[r].pc = "DEDUPED") =>
              LET fresh == Fresh(reqs[r].prepared, ledger, reqs[r].book_id)
                  to_index == reqs'[r].to_index
              IN  /\ Len(to_index) = Cardinality(fresh)
                  /\ \A j \in 1..Len(to_index) :
                        \E k \in fresh :
                           /\ Cardinality({l \in fresh : l < k}) = j - 1
                           /\ to_index[j] = reqs[r].prepared[k]
                  /\ reqs'[r].skipped = Len(reqs[r].prepared) - Len(to_index)]_vars

\* Three candidates of which the middle one is skipped and the other two
\* are selected, first before third.
C25_Witness ==
    \E r \in Reqs :
        /\ reqs[r].pc = "DEDUPED"
        /\ Len(reqs[r].prepared) = 3
        /\ reqs[r].skipped = 1
        /\ reqs[r].to_index = <<reqs[r].prepared[1], reqs[r].prepared[3]>>

\* Every request in flight works on a book_id of its own.
DifferentBooks ==
    \A q, r \in Reqs :
        (q # r /\ reqs[q].pc # "IDLE" /\ reqs[r].pc # "IDLE")
            => reqs[q].book_id # reqs[r].book_id

\* C27: requests for different book_ids do not affect one another: a
\* request that found no index, as it does when it runs alone, can go on to
\* create it and continue whatever the steps the other requests took in the
\* meantime.
C27_DifferentBooksIndependent ==
    \A r \in Reqs :
        (DifferentBooks /\ reqs[r].pc = "CREATING") =>
            ENABLED (EnsureCreate(r) /\ reqs'[r].pc = "ENSURED")

\* The steps of upsert_book_to_pinecone that may raise.
RaisingSteps == {"chunk", "embed", "ensure", "upsert", "persist"}

\* C28: a failure of the PDF extraction, the embedding, ensure_index, the
\* index upsert or the ledger write ends the request: it has no result, it
\* takes no further step, in particular not the book record, and the step
\* that failed left the books as they were; every book row was written by a
\* request that returned a result.
C28_FailuresPropagate ==
    [][/\ \A r \in Reqs :
             (reqs'[r].pc = "FAILED"
                 /\ reqs'[r].steps[Len(reqs'[r].steps)] \in RaisingSteps) =>
                 /\ ~reqs'[r].res.returned
                 /\ "record" \notin StepsOf(r)'
                 /\ reqs'[r] # reqs[r] => (reqs[r].pc # "FAILED" /\ books' = books)
       /\ \A b \in books' :
             \E r \in Reqs : /\ reqs'[r].book_id = b.book_id
                             /\ reqs'[r].res.returned
                             /\ reqs'[r].pc \in {"COMMITTED", "DONE"}]_vars

\* One request failed in the PDF extraction, another in the ledger write
\* after its vectors were written; neither has a result, and there is no
\* book row.
C28_Witness ==
    \E q, r \in Reqs :
        /\ reqs[q].pc = "FAILED" /\ reqs[q].failure = "extract"
        /\ reqs[r].pc = "FAILED" /\ reqs[r].failure = "database"
        /\ VectorsOf(r) # {}
        /\ ~reqs[q].res.returned /\ ~reqs[r].res.returned
        /\ books = {}

\* The numbers of a response that is a flat list or array of numbers.
Numbers(resp) == [k \in 1..Len(resp.items) |-> resp.items[k].v]

Is1D(resp) ==
    /\ resp.py \in {"list", "ndarray"}
    /\ \A k \in 1..Len(resp.items) : resp.items[k].py = "num"

\* C29: when the response accepted for a sub-batch of n texts is a 1D
\* array of numbers, the sub-batch contributes exactly n vectors: the array
\* itself for n = 1, its n equal rows in order when n > 1 divides its
\* length, and else the array once for every text, on the branch that logs
\* the warning.
C29_Array1D ==
    [][Len(hf'.accepted) = Len(hf.accepted) + 1 =>
          LET acc == hf'.accepted[Len(hf'.accepted)]
              n == Len(HfBatch)
              resp == Response(acc.kind, HfBatch)
              flat == Numbers(resp)
              dim == Len(flat) \div n
              added == SubSeq(hf'.all_embeddings, Len(hf.all_embeddings) + 1,
                              Len(hf'.all_embeddings))
          IN  Is1D(resp) =>
                 /\ Len(added) = n
                 /\ IF n = 1 THEN added = <<flat>>
                    ELSE IF Len(flat) % n = 0
                    THEN \A k \in 1..n :
                            added[k] = SubSeq(flat, (k - 1) * dim + 1, k * dim)
                    ELSE /\ \A k \in 1..n : added[k] = flat
                         /\ acc.branch = "B-1d-broadcast"]_vars

\* A returned result of two sub-batches: a 1D array that the size of the
\* first sub-batch does not divide was broadcast, and a 1D array was taken
\* as the vector of the single text of the second.
C29_Witness ==
    /\ hf.pc = "returned"
    /\ Len(hf.accepted) = 2
    /\ hf.accepted[1].kind = "list1d" /\ hf.accepted[1].branch = "B-1d-broadcast"
    /\ hf.accepted[2].kind = "flat1d" /\ hf.accepted[2].branch = "B-1d-single"
    /\ Len(hf.result) = HF_BATCH_SIZE + 1

\* The dict-shaped responses, each with the bare response of the same
\* content.
DictAndBare == {<<"dict2d", "array2d">>, <<"dict1d", "flat1d">>}

\* C30: a dict-shaped response with an "embedding" or "embeddings" field
\* can be accepted for a sub-batch whenever the bare response with the
\* same content can, and then contributes the same vectors.
C30_DictLikeBare ==
    (hf.pc = "request" /\ hf.i < Len(hf.texts)) =>
        \A p \in DictAndBare :
            LET bare == hf_attempt(Response(p[2], HfBatch), Len(HfBatch))
            IN  bare.ok =>
                   ENABLED (/\ HfResolve
                            /\ hf'.accepted[Len(hf'.accepted)].kind = p[1]
                            /\ hf'.all_embeddings =
                                   Accumulate(hf.all_embeddings, bare.appended))

\* The shapes the response of a sub-batch of n texts is recognized by: a
\* list of n items, an array of n rows, a 1D array, a dict with an
\* "embedding" or "embeddings" field.
Recognized(resp, n) ==
    \/ resp.py = "list" /\ Len(resp.items) = n
    \/ Len(Shape(resp)) = 2 /\ Shape(resp)[1] = n
    \/ Shape(resp) # NoShape /\ Len(Shape(resp)) = 1
    \/ resp.py = "dict" /\ resp.key \in {"embedding", "embeddings"}

\* C31: a response of none of the recognized shapes is never accepted: every
\* response a sub-batch was resolved with has a recognized shape (the others
\* are failed attempts that add no vector and are retried).
C31_UnrecognizedNeverResolved ==
    \A j \in 1..Len(hf.accepted) :
        LET batch == Slice(hf.texts, hf.accepted[j].start,
                           hf.accepted[j].start + HF_BATCH_SIZE)
        IN  Recognized(Response(hf.accepted[j].kind, batch), Len(batch))

\* C32: the delay slept before retry number k of a sub-batch is 2^(k-1)
\* seconds plus a jitter in [0, 1): its integer part is 2^(k-1), twice that
\* of the sleep before when k > 1; and the attempt counter is 0 when the
\* next sub-batch begins.
C32_BackoffDoubles ==
    [][/\ (hf'.attempt = hf.attempt + 1 /\ hf'.pc = "request") =>
              /\ hf'.backoff.whole = 2 ^ (hf'.attempt - 1)
              /\ hf.attempt >= 1 => hf'.backoff.whole = 2 * hf.backoff.whole
       /\ hf'.i # hf.i => hf'.attempt = 0]_vars

\* C32, as the double-precision sum allows: the delay slept before retry
\* number k of a sub-batch is the double nearest to 2^(k-1) plus a jitter in
\* [0, 1), so at least 2^(k-1) and at most 2^(k-1) + 1, the latter only as
\* a whole number; it is never shorter than the delay before; and the
\* attempt counter is 0 when the next sub-batch begins.
C32_BackoffRounded ==
    [][/\ (hf'.attempt = hf.attempt + 1 /\ hf'.pc = "request") =>
              /\ \/ hf'.backoff.whole = 2 ^ (hf'.attempt - 1)
                 \/ /\ hf'.backoff.whole = 2 ^ (hf'.attempt - 1) + 1
                    /\ hf'.backoff.ulps = 0
              /\ hf'.backoff.side = "one" => hf'.backoff.ulps > 0
              /\ hf'.backoff.ulp = hf'.attempt - 53
              /\ hf.attempt >= 1 => hf'.backoff.whole >= hf.backoff.whole
       /\ hf'.i # hf.i => hf'.attempt = 0]_vars

\* The first sub-batch was resolved after HF_MAX_RETRIES retries, and the
\* first retry of the second sub-batch has slept a delay that was rounded
\* up to 2 seconds.
C32_Witness ==
    /\ hf.pc = "request"
    /\ hf.i = HF_BATCH_SIZE
    /\ hf.failures = <<HF_MAX_RETRIES>>
    /\ hf.attempt = 1
    /\ hf.backoff = [whole |-> 2, side |-> "zero", ulps |-> 0, ulp |-> -52]

\* C33: the records an ingest upserts are, one per selected chunk and in
\* their order, the chunk_id, the embedding of the same position, and
\* metadata with a text preview that is a prefix of the chunk text of at
\* most 800 characters and no other text; the ledger row the ingest then
\* writes for the chunk has the chunk_id of its record and the full text.
C33_RecordsMatchRows ==
    [][\A r \in Reqs :
          LET to_index == reqs[r].to_index
          IN  /\ (reqs[r].pc = "ENSURED" /\ reqs'[r].pc = "INDEXED") =>
                    /\ \A v \in vectors' \ vectors :
                           \E k \in 1..Len(to_index) : v.id = to_index[k].chunk_id
                    /\ \A k \in 1..Len(to_index) :
                           \E v \in vectors' :
                              LET preview == v.metadata.text_preview
                              IN  /\ v.id = to_index[k].chunk_id
                                  /\ v.values = reqs[r].embeddings[k]
                                  /\ DOMAIN v = {"id", "values", "metadata"}
                                  /\ DOMAIN v.metadata =
                                         {"book_id", "chapter_name", "page",
                                          "chunk_index", "text_preview"}
                                  /\ Len(preview) <= 800
                                  /\ preview = SubSeq(to_index[k].text, 1, Len(preview))
                                  /\ Len(to_index[k].text) > 800 =>
                                         preview # to_index[k].text
              /\ (reqs[r].pc = "INDEXED" /\ reqs'[r].pc = "PERSISTED") =>
                    \A k \in 1..Len(to_index) :
                       /\ \E v \in vectors : v.id = to_index[k].chunk_id
                       /\ \E row \in ledger' \ ledger :
                              /\ row.chunk_id = to_index[k].chunk_id
                              /\ row.full_text = to_index[k].text]_vars

\* An ingest has written the record and then the row of a chunk whose text
\* is longer than the preview the record holds.
C33_Witness ==
    \E r \in Reqs :
        /\ reqs[r].pc = "PERSISTED"
        /\ \E row \in ledger, v \in vectors :
              /\ row.chunk_id = v.id
              /\ v.id = reqs[r].to_index[1].chunk_id
              /\ Len(row.full_text) = WideToken
              /\ Len(v.metadata.text_preview) = 800

\* C34: in an ingest, ensure_index has completed before _upsert_vectors_sync
\* is called, and then the index exists and every vector the ingest upserts
\* has as many components as the index has dimensions, whether the ingest
\* created the index or found it.
C34_DimensionEnsured ==
    \A r \in Reqs :
        /\ \A j \in 1..Len(reqs[r].steps) :
              reqs[r].steps[j] = "upsert" =>
                  \E i \in 1..(j - 1) : reqs[r].steps[i] = "ensure"
        /\ reqs[r].pc = "ENSURED" =>
              /\ index.exists
              /\ \A k \in 1..Len(reqs[r].embeddings) :
                    Len(reqs[r].embeddings[k]) = index.dim

\* C35: a retrieval that returns gives the matches of the index query back
\* one for one: as many results as matches, result k with the id and the
\* score of match k, so in descending order of score and with no id twice,
\* whichever of the matched ids have a ledger row.
C35_RankOrderKept ==
    rt.pc = "returned" =>
        /\ Len(rt.results) = Len(rt.matches)
        /\ \A k \in 1..Len(rt.results) :
              /\ rt.results[k].chunk_id = rt.matches[k].id
              /\ rt.results[k].score = rt.matches[k].score
        /\ \A j, k \in 1..Len(rt.results) :
              j < k => /\ rt.results[j].score > rt.results[k].score
                       /\ rt.results[j].chunk_id # rt.results[k].chunk_id

\* Results of which the first has no ledger row and a later one has.
C35_Witness ==
    /\ rt.pc = "returned"
    /\ Len(rt.results) >= 2
    /\ ~\E row \in ledger : row.chunk_id = rt.results[1].chunk_id
    /\ \E k \in 2..Len(rt.results) :
          \E row \in ledger : /\ row.chunk_id = rt.results[k].chunk_id
                               /\ row.full_text = rt.results[k].full_text

\* C36: the vectors of a returned result all have the same length, for
\* every mix of response shapes over the sub-batches of the call.
C36_OneLength ==
    hf.pc = "returned" =>
        \A j, k \in 1..Len(hf.result) : Len(hf.result[j]) = Len(hf.result[k])

\* C37: whenever an attempt on the sub-batch that begins at input index i is
\* about to start, first try or retry, all_embeddings holds exactly i
\* vectors: a failed attempt has left none of its own.
C37_AttemptStartsClean ==
    (hf.pc = "request" /\ hf.i < Len(hf.texts)) => Len(hf.all_embeddings) = hf.i

\* Request r failed in the ledger write, after its upsert.
FailedAtLedger(r) ==
    /\ reqs[r].pc = "FAILED"
    /\ reqs[r].steps[Len(reqs[r].steps)] = "persist"

\* Request r2, with the book_id and the bytes of r1, is done.
RetryDone(r2, r1) ==
    /\ reqs[r2].pc = "DONE"
    /\ reqs[r2].book_id = reqs[r1].book_id
    /\ reqs[r2].pdf_bytes = reqs[r1].pdf_bytes

\* The index next to the ledger for the book of request r: every vector of
\* the book has a ledger row with its id, and there are as many vectors of
\* the book as the document has distinct chunk hashes.
IndexAsLedger(r) ==
    LET ofBook == {v \in vectors : v.metadata.book_id = reqs[r].book_id}
        hashes == {reqs[r].prepared[k].chunk_hash : k \in 1..Len(reqs[r].prepared)}
    IN  /\ \A v \in ofBook : \E row \in ledger : row.chunk_id = v.id
        /\ Cardinality(ofBook) = Cardinality(hashes)

\* C38: when an ingest has failed in its ledger write, after its upsert, and
\* the next request then ingests the same bytes under the same book_id to
\* the end, every vector of the book has a ledger row with its id and the
\* index holds one vector per distinct chunk hash of the document.
C38_RetryIsSafe ==
    \A r1, r2 \in Reqs :
        (r1 < r2 /\ FailedAtLedger(r1) /\ RetryDone(r2, r1)) => IndexAsLedger(r2)

\* C39: in every state of every interleaving of ingests and deletions, each
\* ledger row has its vector: the chunk_id of every row of the ledger is
\* the id of a record of the index.
C39_RowsHaveVectors ==
    \A row \in ledger : \E v \in vectors : v.id = row.chunk_id

\* The sum of the inserted counts that upsert_book_to_pinecone returned to
\* the requests 1..n for book b.
RECURSIVE InsertedSum(_, _)
InsertedSum(b, n) ==
    IF n = 0 THEN 0
    ELSE InsertedSum(b, n - 1)
         + (IF reqs[n].book_id = b /\ reqs[n].res.returned
            THEN reqs[n].res.inserted ELSE 0)

\* C40: with no deletion, the ledger holds of every request either no row
\* or, once the request was returned inserted = n, exactly n rows; so the
\* rows of a book are as many as the sum of the inserted counts returned
\* for it.
C40_RowsAreInsertedSum ==
    /\ \A r \in Reqs :
          Cardinality(RowsOf(r)) =
              IF reqs[r].res.returned THEN reqs[r].res.inserted ELSE 0
    /\ \A b \in BookIds :
          Cardinality(RowsOfBook(b)) = InsertedSum(b, MaxRequests)

\* Two ingests of a book have each inserted rows, and a third party has
\* none: the rows of the book are those of the two.
C40_Witness ==
    \E r1, r2 \in Reqs :
        /\ r1 # r2
        /\ reqs[r1].book_id = reqs[r2].book_id
        /\ reqs[r1].res.returned /\ reqs[r1].res.inserted > 0
        /\ reqs[r2].res.returned /\ reqs[r2].res.inserted > 0
        /\ reqs[r2].res.skipped > 0
        /\ Cardinality(RowsOfBook(reqs[r1].book_id)) =
               reqs[r1].res.inserted + reqs[r2].res.inserted

====
